---- MODULE Spec2Model ----
(***************************************************************************)
(* LiveAudioCast: session gateway (socketGateway.js), SFU resource manager *)
(* (mediasoupHandler.js, mediasoupRoutes.js) and capacity controller       *)
(* (ScalingOrchestrator.js).  Every handler is an async function: it runs  *)
(* atomically up to its next await, so each action below is the code from  *)
(* one await to the next, and a process' pc names the await it is parked   *)
(* at.                                                                     *)
(***************************************************************************)
EXTENDS Integers, Sequences, FiniteSets, TLC

\* ------------------------------------------------------------------ bounds
\* In-flight HTTP requests towards the SFU manager.
MaxReq == 3
\* Size of the worker pool (os.cpus().length on the host).
NumWorkers == 2
\* Number of broadcasts in the database.
NumBroadcasts == 2

\* Media requests (connect, produce, consume, pause, resume) that may be
\* served.
MaxMedia == 3

\* Socket connections, users, and gateway event handlers that may run.
MaxSockets == 3
NumUsers == 2
MaxGw == 2

\* Controller: concurrently running handlers (timer callbacks and Redis
\* message handlers), instance ids the provider can hand out, the largest
\* listenerCount an instance reports, the largest targetLoad a scale-up
\* request carries, the number of auto-scaling periods observed, and the
\* relay instances and CDN distributions the provider can hand out.
MaxCtl == 2
MaxInstanceIds == 3
MaxListeners == 1
MaxTargetLoad == 6
MaxTicks == 3
MaxLatePolls == 0
MaxRelays == 2
MaxDistributions == 2
\* Date.now() when the orchestrator is constructed.
Epoch == 1000000

\* config.scaling.  The record is replaced as a whole by the constructor's
\* `...config`; maxInstances, targetListenersPerInstance and cooldownPeriod
\* are taken small here (defaults 10, 50 and 300000: the cooldown spans two
\* auto-scaling periods instead of five); the other values are the defaults.
minInstances == 1
maxInstances == 2
targetListenersPerInstance == 2
targetCPU == 70
targetMemory == 80
scaleDownThreshold == 30
cooldownPeriod == 120000
cdnSwitchThreshold == 40
relayActivationThreshold == 200
\* config.regions
Regions == <<"us-east-1", "eu-west-1", "ap-southeast-1">>
\* config.healthCheck.unhealthyThreshold
unhealthyThreshold == 3
\* startMetricsCollection's period
CollectInterval == 30000
\* The age beyond which a sample counts as stale.
StaleWindow == 60000
\* drainInstances: maxDrainTime and the polling sleep; startAutoScaling's period
maxDrainTime == 60000
PollInterval == 5000
TickInterval == 60000

CtlIds == 1..MaxCtl
InstanceIds == 1..MaxInstanceIds
MaxTime == Epoch + MaxTicks * TickInterval
\* The retirement and drain specifications observe one drain timeout and
\* MaxLatePolls polling periods after it.
DrainHorizon == Epoch + maxDrainTime + MaxLatePolls * PollInterval

Broadcasts == 1..NumBroadcasts
ReqIds == 1..MaxReq
Workers == 0..(NumWorkers - 1)
MediaIds == 1..MaxMedia
Sockets == 1..MaxSockets
Users == 1..NumUsers
GwIds == 1..MaxGw

\* socket.user.id of each connection (set by the authentication middleware)
\* and broadcast.hostId of each broadcast row.
UserOf(s) == ((s - 1) % NumUsers) + 1
HostOf(b) == ((b - 1) % NumUsers) + 1

VARIABLES
  \* --- MediasoupHandler
  nextWorkerIndex,  \* this.nextWorkerIndex
  routers,          \* this.routers: broadcastId -> router id, 0 when absent
  transports,       \* this.transports: set of [id, router]
  engineRouters,    \* routers the media engine holds: [id, worker, bid, closed]
  sfuReq,           \* in-flight requests: [pc, kind, bid, worker, router, sid]
  \* --- database rows shared by the routes and the gateway
  bstatus,          \* Broadcast.status per broadcast, "absent" when no row
  listenerCount,    \* Broadcast.currentListenerCount
  sessions,         \* Session rows in creation order: [bid, uid, role,
                    \* socket, status, transportId, isHandRaised, isMuted]
  \* --- SocketGateway and its Redis presence keys
  activeSessions,   \* this.activeSessions: socket -> session id, 0 when absent
  presence,         \* broadcast:<id>:users sets
  userSocket,       \* user:<id>:socket keys, 0 when absent
  gw,               \* event handlers in flight: [pc, socket, bid, sid, count, target]
  userLeft,         \* 'userLeft' events emitted for the leaves of each socket
  \* --- ScalingOrchestrator
  now,              \* Date.now()
  nextTick,         \* when the auto-scaling interval fires next
  cp,               \* controller handlers in flight
  lastScaleAction,  \* this.lastScaleAction
  scalingHistory,   \* this.scalingHistory
  instances,        \* keys of this.instances
  metrics,          \* this.metrics: instance -> listenerCount, NoMetrics when absent
  instState,        \* Redis instance:<id> state field
  relayNodes,       \* keys of this.relayNodes
  cdnDistributions, \* this.cdnDistributions: broadcastId -> distribution id, 0 when absent
  \* --- the cloud provider
  provisioned,      \* number of instance ids handed out so far
  relayInstances,   \* relay instances launched: [id, bid, region]
  cdnCreated,       \* CDN distributions created: [id, bid]
  \* --- history
  launchLog,        \* Date.now() at the start of every scaleUp that launched
  \* --- MediasoupHandler: producers, consumers and the worker processes
  producers,        \* this.producers: set of [id, transport]
  consumers,        \* this.consumers: set of [id, transport, producer]
  mediaReq,         \* media requests in flight: [pc, kind, transport, producer]
  deadWorkers,      \* workers whose 'died' event has been delivered
  exited,           \* process.exit(1) has run in the signalling server
  \* --- SocketGateway: what it sends to other connections
  notified,         \* 'muted' and 'removed' events sent: [socket, event]
  kicked,           \* sockets the gateway has called disconnect(true) on
  \* --- ScalingOrchestrator: process and replicas
  crashed,          \* the orchestrator process has terminated
  peer,             \* a second orchestrator process: [pc, n, lastScaleAction,
                    \* instances], its own this.lastScaleAction and the size
                    \* of its own this.instances
  metricsAt,        \* this.metrics: instance -> timestamp of its sample
  aggregated,       \* totalListeners of metrics:aggregated 'latest', NoMetrics
                    \* when absent
  nextCollect,      \* when the metrics-collection interval fires next
  unhealthyCount,   \* instance.unhealthyCount of every instance object
  failStreak        \* history: failed health checks of an instance since its
                    \* last successful one, counted up to unhealthyThreshold

sfuVars == <<nextWorkerIndex, routers, transports, engineRouters, sfuReq>>
dbVars == <<bstatus, listenerCount, sessions>>
gwVars == <<activeSessions, presence, userSocket, gw, userLeft>>
scaleVars == <<lastScaleAction, scalingHistory, instances, metrics, instState,
               provisioned, launchLog>>
actVars == <<relayNodes, cdnDistributions, relayInstances, cdnCreated>>
ctlVars == <<now, nextTick, cp, scaleVars, actVars>>
mediaVars == <<producers, consumers, mediaReq, deadWorkers, exited>>
opsVars == <<crashed, peer, metricsAt, aggregated, nextCollect>>
hostVars == <<notified, kicked>>
healthVars == <<unhealthyCount, failStreak>>
extVars == <<mediaVars, opsVars, hostVars, healthVars>>
vars == <<sfuVars, dbVars, gwVars, ctlVars, extVars>>

\* ------------------------------------------------------- MediasoupHandler

IdleReq == [pc |-> "idle", kind |-> "none", bid |-> 0, worker |-> 0, router |-> 0,
            sid |-> 0]

\* Request slots are taken in order; a request that has been answered keeps
\* its slot, so at most MaxReq requests are served in one behaviour.
ReqFree(q) == sfuReq[q].pc = "idle" /\ \A r \in ReqIds : r < q => sfuReq[r].pc # "idle"

\* getRouter(broadcastId): this.routers.get(broadcastId)
getRouter(b) == routers[b]

\* getNextWorker(): the worker handed out, and the index left behind
getNextWorker == nextWorkerIndex
\* getNextWorker() that leaves this.nextWorkerIndex as it found it
NextWorkerIndexKept == nextWorkerIndex

NextWorkerIndexAfter == (nextWorkerIndex + 1) % NumWorkers

\* The synchronous head of createRouter(b): pick the worker, call the engine
\* and park at `await worker.createRouter(...)`.  It never looks at
\* this.routers.
createRouterBegin(q, b, kind) ==
  /\ sfuReq' = [sfuReq EXCEPT ![q] =
       [pc |-> "awaitRouter", kind |-> kind, bid |-> b,
        worker |-> getNextWorker, router |-> 0, sid |-> 0]]
  /\ nextWorkerIndex' = NextWorkerIndexAfter
  /\ UNCHANGED <<routers, transports, engineRouters>>

\* mediasoupHandler.createRouter(b) called directly
CallCreateRouter(q, b) ==
  /\ ReqFree(q)
  /\ createRouterBegin(q, b, "router")
  /\ UNCHANGED <<dbVars, gwVars, ctlVars, extVars>>

\* mediasoupHandler.createWebRtcTransport(b):
\*   const router = this.getRouter(b) || await this.createRouter(b)
CallCreateWebRtcTransport(q, b) ==
  /\ ReqFree(q)
  /\ IF getRouter(b) # 0
       THEN /\ sfuReq' = [sfuReq EXCEPT ![q] =
                 [pc |-> "awaitTransport", kind |-> "transport", bid |-> b,
                  worker |-> 0, router |-> getRouter(b), sid |-> 0]]
            /\ UNCHANGED <<nextWorkerIndex, routers, transports, engineRouters>>
       ELSE createRouterBegin(q, b, "transport")
  /\ UNCHANGED <<dbVars, gwVars, ctlVars, extVars>>

\* GET /:broadcastId/rtp-capabilities, up to `await Broadcast.findByPk`
RouteRtpCapabilities(q, b) ==
  /\ ReqFree(q)
  /\ sfuReq' = [sfuReq EXCEPT ![q] =
       [pc |-> "awaitFind", kind |-> "caps", bid |-> b, worker |-> 0, router |-> 0,
        sid |-> 0]]
  /\ UNCHANGED <<nextWorkerIndex, routers, transports, engineRouters>>
  /\ UNCHANGED <<dbVars, gwVars, ctlVars, extVars>>

\* the route after findByPk: 404, or the capabilities of the registered
\* router, or createRouter when getRouterRtpCapabilities returned null
RtpCapabilitiesFound(q) ==
  /\ sfuReq[q].pc = "awaitFind"
  /\ IF bstatus[sfuReq[q].bid] = "absent"
       THEN /\ sfuReq' = [sfuReq EXCEPT ![q].pc = "notFound"]
            /\ UNCHANGED <<nextWorkerIndex, routers, transports, engineRouters>>
       ELSE IF getRouter(sfuReq[q].bid) # 0
         THEN /\ sfuReq' = [sfuReq EXCEPT ![q].pc = "done",
                                          ![q].router = getRouter(sfuReq[q].bid)]
              /\ UNCHANGED <<nextWorkerIndex, routers, transports, engineRouters>>
         ELSE createRouterBegin(q, sfuReq[q].bid, "caps")
  /\ UNCHANGED <<dbVars, gwVars, ctlVars, extVars>>

\* `await worker.createRouter(...)` resolves: the engine has made a new
\* router; createRouter registers it with this.routers.set(b, router) and
\* returns it.  createWebRtcTransport goes on to router.createWebRtcTransport.
NewRouterId == Cardinality(engineRouters) + 1

EngineRouterCreated(q) ==
  /\ sfuReq[q].pc = "awaitRouter"
  /\ IF sfuReq[q].worker \in deadWorkers
       THEN \* the engine rejects a call on a closed worker
            /\ sfuReq' = [sfuReq EXCEPT ![q].pc = "failed"]
            /\ UNCHANGED <<engineRouters, routers>>
       ELSE /\ engineRouters' = engineRouters \cup
                 {[id |-> NewRouterId, worker |-> sfuReq[q].worker,
                   bid |-> sfuReq[q].bid, closed |-> FALSE]}
            /\ routers' = [routers EXCEPT ![sfuReq[q].bid] = NewRouterId]
            /\ sfuReq' = [sfuReq EXCEPT
                 ![q].pc = IF sfuReq[q].kind \in {"transport", "troute"}
                           THEN "awaitTransport" ELSE "done",
                 ![q].router = NewRouterId]
  /\ UNCHANGED <<nextWorkerIndex, transports>>
  /\ UNCHANGED <<dbVars, gwVars, ctlVars, extVars>>

\* The id of the transport the engine makes for request q: every request
\* makes at most one, so ids are never used twice.
NewTransportId(q) == q

\* The engine has closed router id.
RouterClosed(id) == \E r \in engineRouters : r.id = id /\ r.closed

\* `await router.createWebRtcTransport(...)` resolves:
\* this.transports.set(transport.id, transport); the engine rejects the call
\* when the router was closed in the meantime.  The transports route goes on
\* to `await Session.findOne`.
EngineTransportCreated(q) ==
  /\ sfuReq[q].pc = "awaitTransport"
  /\ IF RouterClosed(sfuReq[q].router)
       THEN /\ sfuReq' = [sfuReq EXCEPT ![q].pc = "failed"]
            /\ UNCHANGED transports
       ELSE /\ transports' = transports \cup
                 {[id |-> NewTransportId(q), router |-> sfuReq[q].router]}
            /\ sfuReq' = [sfuReq EXCEPT ![q].pc =
                 IF sfuReq[q].kind = "troute" THEN "awaitSession" ELSE "done"]
  /\ UNCHANGED <<nextWorkerIndex, routers, engineRouters>>
  /\ UNCHANGED <<dbVars, gwVars, ctlVars, extVars>>

\* The user a request is authenticated as.
UserOfReq(q) == ((q - 1) % NumUsers) + 1

\* POST /:broadcastId/transports, up to the first await inside
\* mediasoupHandler.createWebRtcTransport(b)
RouteTransports(q, b) ==
  /\ ReqFree(q)
  /\ IF getRouter(b) # 0
       THEN /\ sfuReq' = [sfuReq EXCEPT ![q] =
                 [pc |-> "awaitTransport", kind |-> "troute", bid |-> b,
                  worker |-> 0, router |-> getRouter(b), sid |-> 0]]
            /\ UNCHANGED <<nextWorkerIndex, routers, transports, engineRouters>>
       ELSE createRouterBegin(q, b, "troute")
  /\ UNCHANGED <<dbVars, gwVars, ctlVars, extVars>>

\* Session.findOne({where: {broadcastId, userId, status: 'connected'}}), any
\* of the matching rows
ConnectedSessionsOf(b, u) ==
  {i \in DOMAIN sessions : /\ sessions[i].bid = b
                           /\ sessions[i].uid = u
                           /\ sessions[i].status = "connected"}

\* the route after findOne: with a session, park at `await session.update`;
\* without, answer
TransportSessionFound(q) ==
  /\ sfuReq[q].pc = "awaitSession"
  /\ IF ConnectedSessionsOf(sfuReq[q].bid, UserOfReq(q)) = {}
       THEN sfuReq' = [sfuReq EXCEPT ![q].pc = "done"]
       ELSE \E i \in ConnectedSessionsOf(sfuReq[q].bid, UserOfReq(q)) :
              sfuReq' = [sfuReq EXCEPT ![q].pc = "awaitSessionUpdate", ![q].sid = i]
  /\ UNCHANGED <<nextWorkerIndex, routers, transports, engineRouters>>
  /\ UNCHANGED <<dbVars, gwVars, ctlVars, extVars>>

\* session.update({transportId: transportParams.id}) done; res.json
TransportSessionUpdated(q) ==
  /\ sfuReq[q].pc = "awaitSessionUpdate"
  /\ sessions' = [sessions EXCEPT ![sfuReq[q].sid].transportId = NewTransportId(q)]
  /\ sfuReq' = [sfuReq EXCEPT ![q].pc = "done"]
  /\ UNCHANGED <<nextWorkerIndex, routers, transports, engineRouters>>
  /\ UNCHANGED <<bstatus, listenerCount, gwVars, ctlVars, extVars>>

\* router.close() in the engine
EngineRouterClosed(id) ==
  {IF r.id = id THEN [r EXCEPT !.closed = TRUE] ELSE r : r \in engineRouters}

\* closeTransport(transportId): transport.close() and
\* this.transports.delete(transportId), when the id is registered
closeTransport(T, id) == {t \in T : t.id # id}

\* The 'transportclose' listeners of createProducer and createConsumer and the
\* 'producerclose' listener of createConsumer, run by the engine when the
\* transports T are closed: the producers of T and the consumers of T and of
\* those producers leave the registries.
producersAfterClose(T) == {x \in producers : x.transport \notin T}
consumersAfterClose(T) ==
  {c \in consumers : /\ c.transport \notin T
                      /\ \E x \in producersAfterClose(T) : x.id = c.producer}

CallCloseTransport(id) ==
  /\ \E t \in transports : t.id = id
  /\ transports' = closeTransport(transports, id)
  /\ producers' = producersAfterClose({id})
  /\ consumers' = consumersAfterClose({id})
  /\ UNCHANGED <<nextWorkerIndex, routers, engineRouters, sfuReq>>
  /\ UNCHANGED <<mediaReq, deadWorkers, exited>>
  /\ UNCHANGED <<dbVars, gwVars, ctlVars, opsVars, hostVars, healthVars>>

\* deleteRouter(b): router.close() and this.routers.delete(b) for the
\* registered router.  Nothing listens to the 'routerclose' event of the
\* router's transports, so this.transports keeps them.
TransportsOf(r) == {t.id : t \in {x \in transports : x.router = r}}

CallDeleteRouter(b) ==
  /\ getRouter(b) # 0
  /\ engineRouters' = EngineRouterClosed(getRouter(b))
  /\ routers' = [routers EXCEPT ![b] = 0]
  /\ producers' = producersAfterClose(TransportsOf(getRouter(b)))
  /\ consumers' = consumersAfterClose(TransportsOf(getRouter(b)))
  /\ UNCHANGED <<nextWorkerIndex, transports, sfuReq>>
  /\ UNCHANGED <<mediaReq, deadWorkers, exited>>
  /\ UNCHANGED <<dbVars, gwVars, ctlVars, opsVars, hostVars, healthVars>>

\* cleanupBroadcast(b): with a router registered for b, closeTransport for
\* every entry of this.transports, then deleteRouter(b)
CallCleanupBroadcast(b) ==
  /\ getRouter(b) # 0
  /\ transports' = {}
  /\ engineRouters' = EngineRouterClosed(getRouter(b))
  /\ routers' = [routers EXCEPT ![b] = 0]
  /\ producers' = {}
  /\ consumers' = {}
  /\ UNCHANGED <<nextWorkerIndex, sfuReq>>
  /\ UNCHANGED <<mediaReq, deadWorkers, exited>>
  /\ UNCHANGED <<dbVars, gwVars, ctlVars, opsVars, hostVars, healthVars>>

\* --- the worker processes

\* A worker process dies: the engine closes the worker and its routers and
\* delivers 'died'; the listener of initialize logs and arms
\* setTimeout(() => process.exit(1), 2000).  this.workers is left as it is.
WorkerDied(w) ==
  /\ w \notin deadWorkers
  /\ deadWorkers' = deadWorkers \cup {w}
  /\ LET R == {r.id : r \in {x \in engineRouters : x.worker = w}}
         T == {t.id : t \in {x \in transports : x.router \in R}}
     IN /\ engineRouters' = {IF r.id \in R THEN [r EXCEPT !.closed = TRUE] ELSE r :
                               r \in engineRouters}
        /\ producers' = producersAfterClose(T)
        /\ consumers' = consumersAfterClose(T)
  /\ UNCHANGED <<nextWorkerIndex, routers, transports, sfuReq>>
  /\ UNCHANGED <<mediaReq, exited>>
  /\ UNCHANGED <<dbVars, gwVars, ctlVars, opsVars, hostVars, healthVars>>

\* The timer armed by a 'died' listener fires: process.exit(1)
ProcessExit ==
  /\ deadWorkers # {}
  /\ ~exited
  /\ exited' = TRUE
  /\ UNCHANGED <<producers, consumers, mediaReq, deadWorkers>>
  /\ UNCHANGED <<sfuVars, dbVars, gwVars, ctlVars, opsVars, hostVars, healthVars>>

\* --- POST /:id/end and broadcastService.endBroadcast

\* The route calls endBroadcast(id, req.user.id, req.user.role), parked at
\* `await Broadcast.findByPk(broadcastId)`
RouteEndBroadcast(q, b, role) ==
  /\ ReqFree(q)
  /\ sfuReq' = [sfuReq EXCEPT ![q] =
       [IdleReq EXCEPT !.pc = "endFind", !.bid = b,
                       !.kind = IF role = "admin" THEN "endAdmin" ELSE "end"]]
  /\ UNCHANGED <<nextWorkerIndex, routers, transports, engineRouters>>
  /\ UNCHANGED <<dbVars, gwVars, ctlVars, extVars>>

\* findByPk resolved: 'Broadcast not found', 'Unauthorized to end this
\* broadcast' or 'Broadcast is not live' is thrown, or the call parks at
\* `await broadcast.update(...)`
EndFound(q) ==
  /\ sfuReq[q].pc = "endFind"
  /\ LET b == sfuReq[q].bid
     IN sfuReq' = [sfuReq EXCEPT ![q].pc =
          IF \/ bstatus[b] = "absent"
             \/ HostOf(b) # UserOfReq(q) /\ sfuReq[q].kind # "endAdmin"
             \/ bstatus[b] # "live"
          THEN "failed" ELSE "endUpdate"]
  /\ UNCHANGED <<nextWorkerIndex, routers, transports, engineRouters>>
  /\ UNCHANGED <<dbVars, gwVars, ctlVars, extVars>>

\* broadcast.update({status: 'ended', endTime, currentListenerCount: 0}) done;
\* parked at `await Session.update(...)`
EndUpdated(q) ==
  /\ sfuReq[q].pc = "endUpdate"
  /\ bstatus' = [bstatus EXCEPT ![sfuReq[q].bid] = "ended"]
  /\ listenerCount' = [listenerCount EXCEPT ![sfuReq[q].bid] = 0]
  /\ sfuReq' = [sfuReq EXCEPT ![q].pc = "endSessions"]
  /\ UNCHANGED <<nextWorkerIndex, routers, transports, engineRouters, sessions>>
  /\ UNCHANGED <<gwVars, ctlVars, extVars>>

\* Session.update({status: 'disconnected', leftAt}, {where: {broadcastId,
\* status: 'connected'}}) done: endBroadcast returns the broadcast
EndSessionsUpdated(q) ==
  /\ sfuReq[q].pc = "endSessions"
  /\ sessions' = [i \in DOMAIN sessions |->
       IF sessions[i].bid = sfuReq[q].bid /\ sessions[i].status = "connected"
       THEN [sessions[i] EXCEPT !.status = "disconnected"] ELSE sessions[i]]
  /\ sfuReq' = [sfuReq EXCEPT ![q].pc = "done"]
  /\ UNCHANGED <<nextWorkerIndex, routers, transports, engineRouters>>
  /\ UNCHANGED <<bstatus, listenerCount, gwVars, ctlVars, extVars>>

\* --- connectTransport, createProducer, createConsumer, pause and resume

IdleMedia == [pc |-> "idle", kind |-> "none", transport |-> 0, producer |-> 0,
              consumer |-> 0, caps |-> FALSE, user |-> 0, sid |-> 0]

MediaFree(m) ==
  mediaReq[m].pc = "idle" /\ \A r \in MediaIds : r < m => mediaReq[r].pc # "idle"

\* this.transports.get(id), this.producers.get(id), this.consumers.get(id)
getTransport(id) == {t \in transports : t.id = id}
getProducer(id) == {x \in producers : x.id = id}
getConsumer(id) == {c \in consumers : c.id = id}

\* The engine's router of a transport and of a producer, 0 when it has none.
RouterOfTransport(id) ==
  IF getTransport(id) = {} THEN 0 ELSE (CHOOSE t \in getTransport(id) : TRUE).router
RouterOfProducer(id) ==
  IF getProducer(id) = {} THEN 0
  ELSE RouterOfTransport((CHOOSE x \in getProducer(id) : TRUE).transport)

\* The engine still runs the transport: it is closed with its router.
TransportOpen(id) == getTransport(id) # {} /\ ~RouterClosed(RouterOfTransport(id))

\* A media request begins: the record it leaves, all else unchanged
mediaBegin(m, r) ==
  /\ MediaFree(m)
  /\ mediaReq' = [mediaReq EXCEPT ![m] = r]
  /\ UNCHANGED <<producers, consumers, deadWorkers, exited>>
  /\ UNCHANGED <<sfuVars, dbVars, gwVars, ctlVars, opsVars, hostVars, healthVars>>

\* connectTransport(transportId, dtlsParameters) up to `await transport.connect`
CallConnectTransport(m, t) ==
  mediaBegin(m, [IdleMedia EXCEPT !.kind = "connect", !.transport = t,
       !.pc = IF getTransport(t) = {} THEN "notFound" ELSE "awaitEngine"])

\* createProducer(transportId, kind, rtpParameters) up to `await transport.produce`
CallCreateProducer(m, t) ==
  mediaBegin(m, [IdleMedia EXCEPT !.kind = "produce", !.transport = t,
       !.pc = IF getTransport(t) = {} THEN "notFound" ELSE "awaitProduce"])

\* `await transport.produce(...)` resolves: this.producers.set(producer.id,
\* producer); the engine rejects the call on a closed transport.  The
\* producer takes the id of its request.
EngineProduced(m) ==
  /\ mediaReq[m].pc = "awaitProduce"
  /\ IF TransportOpen(mediaReq[m].transport)
       THEN /\ producers' = producers \cup
                 {[id |-> m, transport |-> mediaReq[m].transport]}
            /\ mediaReq' = [mediaReq EXCEPT ![m].producer = m, ![m].pc =
                 IF mediaReq[m].kind = "proute" THEN "produceFind" ELSE "done"]
       ELSE /\ mediaReq' = [mediaReq EXCEPT ![m].pc = "failed"]
            /\ UNCHANGED producers
  /\ UNCHANGED <<consumers, deadWorkers, exited>>
  /\ UNCHANGED <<sfuVars, dbVars, gwVars, ctlVars, opsVars, hostVars, healthVars>>

\* POST /transports/:transportId/produce by a client authenticated as user u,
\* up to `await transport.produce` inside mediasoupHandler.createProducer;
\* the route is guarded by `authenticate` alone
RouteProduce(m, t, u) ==
  mediaBegin(m, [IdleMedia EXCEPT !.kind = "proute", !.transport = t, !.user = u,
       !.pc = IF getTransport(t) = {} THEN "notFound" ELSE "awaitProduce"])

\* Session.findOne({where: {transportId, userId, status: 'connected'}}), any
\* of the matching rows
SessionsOnTransport(t, u) ==
  {i \in DOMAIN sessions : /\ sessions[i].transportId = t
                           /\ sessions[i].uid = u
                           /\ sessions[i].status = "connected"}

\* the produce route after findOne: with a session, park at
\* `await session.update`; without, res.json(producerParams)
ProduceSessionFound(m) ==
  /\ mediaReq[m].pc = "produceFind"
  /\ IF SessionsOnTransport(mediaReq[m].transport, mediaReq[m].user) = {}
       THEN mediaReq' = [mediaReq EXCEPT ![m].pc = "done"]
       ELSE \E i \in SessionsOnTransport(mediaReq[m].transport, mediaReq[m].user) :
              mediaReq' = [mediaReq EXCEPT ![m].pc = "produceUpdate", ![m].sid = i]
  /\ UNCHANGED <<producers, consumers, deadWorkers, exited>>
  /\ UNCHANGED <<sfuVars, dbVars, gwVars, ctlVars, opsVars, hostVars, healthVars>>

\* session.update({producerId: producerParams.id}) done; res.json
ProduceSessionUpdated(m) ==
  /\ mediaReq[m].pc = "produceUpdate"
  /\ sessions' = [sessions EXCEPT ![mediaReq[m].sid].producerId = mediaReq[m].producer]
  /\ mediaReq' = [mediaReq EXCEPT ![m].pc = "done"]
  /\ UNCHANGED <<producers, consumers, deadWorkers, exited>>
  /\ UNCHANGED <<bstatus, listenerCount>>
  /\ UNCHANGED <<sfuVars, gwVars, ctlVars, opsVars, hostVars, healthVars>>

\* router.canConsume({producerId, rtpCapabilities}) of the engine: the
\* producer lives in router r and the capabilities fit it
canConsume(r, pr, caps) == r # 0 /\ RouterOfProducer(pr) = r /\ ~RouterClosed(r) /\ caps

\* The head of createConsumer skipping the lookup of the producer.
createConsumerBeginUnchecked(t, pr, caps) ==
  IF getTransport(t) = {} THEN "notFound"
  ELSE IF \E b \in Broadcasts : canConsume(routers[b], pr, caps) \/ getProducer(pr) = {}
    THEN "awaitConsume"
    ELSE "cannotConsume"

\* createConsumer(transportId, producerId, rtpCapabilities) up to
\* `await transport.consume`: where the call is left.  The router asked is
\* the first of this.routers.values() that reports canConsume.
createConsumerBegin(t, pr, caps) ==
  IF getTransport(t) = {} \/ getProducer(pr) = {} THEN "notFound"
  ELSE IF \E b \in Broadcasts : canConsume(routers[b], pr, caps)
    THEN "awaitConsume"
    ELSE "cannotConsume"

CallCreateConsumer(m, t, pr, caps) ==
  mediaBegin(m, [IdleMedia EXCEPT !.kind = "consume", !.transport = t,
       !.producer = pr, !.caps = caps, !.pc = createConsumerBegin(t, pr, caps)])

\* transport.consume({producerId, rtpCapabilities}) of the engine accepts the
\* call: the transport is open, its router holds the producer and the
\* capabilities fit.
engineConsumeAnyRouter(t, pr, caps) == TransportOpen(t) /\ getProducer(pr) # {} /\ caps
engineConsume(t, pr, caps) == TransportOpen(t) /\ canConsume(RouterOfTransport(t), pr, caps)

\* `await transport.consume(...)` resolves or rejects:
\* this.consumers.set(consumer.id, consumer) when it resolves.  The consumer
\* takes the id of its request.
EngineConsumed(m) ==
  /\ mediaReq[m].pc = "awaitConsume"
  /\ IF engineConsume(mediaReq[m].transport, mediaReq[m].producer, mediaReq[m].caps)
       THEN /\ consumers' = consumers \cup
                 {[id |-> m, transport |-> mediaReq[m].transport,
                   producer |-> mediaReq[m].producer]}
            /\ mediaReq' = [mediaReq EXCEPT ![m].pc = "done", ![m].consumer = m]
       ELSE /\ mediaReq' = [mediaReq EXCEPT ![m].pc = "failed"]
            /\ UNCHANGED consumers
  /\ UNCHANGED <<producers, deadWorkers, exited>>
  /\ UNCHANGED <<sfuVars, dbVars, gwVars, ctlVars, opsVars, hostVars, healthVars>>

\* pauseProducer(producerId) and resumeProducer(producerId) up to
\* `await producer.pause()` / `await producer.resume()`
CallProducerOp(m, op, pr) ==
  mediaBegin(m, [IdleMedia EXCEPT !.kind = op, !.producer = pr,
       !.pc = IF getProducer(pr) = {} THEN "notFound" ELSE "awaitEngine"])

\* pauseConsumer(consumerId) and resumeConsumer(consumerId) up to
\* `await consumer.pause()` / `await consumer.resume()`
CallConsumerOp(m, op, c) ==
  mediaBegin(m, [IdleMedia EXCEPT !.kind = op, !.consumer = c,
       !.pc = IF getConsumer(c) = {} THEN "notFound" ELSE "awaitEngine"])

\* transport.connect, producer.pause/resume or consumer.pause/resume settles:
\* the call returns
EngineSettled(m) ==
  /\ mediaReq[m].pc = "awaitEngine"
  /\ mediaReq' = [mediaReq EXCEPT ![m].pc = "done"]
  /\ UNCHANGED <<producers, consumers, deadWorkers, exited>>
  /\ UNCHANGED <<sfuVars, dbVars, gwVars, ctlVars, opsVars, hostVars, healthVars>>

\* ---------------------------------------------------------- SocketGateway

IdleGw == [pc |-> "idle", socket |-> 0, bid |-> 0, sid |-> 0, count |-> 0,
           target |-> 0]

\* Handler slots are taken in order; a handler that has returned keeps its
\* slot, so at most MaxGw events are handled in one behaviour.
GwFree(g) == gw[g].pc = "idle" /\ \A h \in GwIds : h < g => gw[h].pc # "idle"

\* Session.count({where: {broadcastId, status: 'connected'}})
ConnectedCount(b) ==
  Cardinality({i \in DOMAIN sessions :
                 sessions[i].bid = b /\ sessions[i].status = "connected"})

\* socket.on('join'): handleJoin up to `await Broadcast.findByPk`
HandleJoin(g, s, b) ==
  /\ GwFree(g)
  /\ gw' = [gw EXCEPT ![g] = [IdleGw EXCEPT !.pc = "joinFind", !.socket = s, !.bid = b]]
  /\ UNCHANGED <<activeSessions, presence, userSocket, userLeft>>
  /\ UNCHANGED <<dbVars, sfuVars, ctlVars, extVars>>

\* handleJoin without its two tests of the broadcast row
JoinFoundUnchecked(g) ==
  /\ gw[g].pc = "joinFind"
  /\ gw' = [gw EXCEPT ![g].pc = "joinCreate"]
  /\ UNCHANGED <<activeSessions, presence, userSocket, userLeft>>
  /\ UNCHANGED <<dbVars, sfuVars, ctlVars, extVars>>

\* the broadcast row is back: 'Broadcast not found', 'Broadcast has ended',
\* or go on to `await Session.create`
JoinFound(g) ==
  /\ gw[g].pc = "joinFind"
  /\ gw' = [gw EXCEPT ![g].pc =
       IF bstatus[gw[g].bid] = "absent" THEN "errNotFound"
       ELSE IF bstatus[gw[g].bid] = "ended" THEN "errEnded"
       ELSE "joinCreate"]
  /\ UNCHANGED <<activeSessions, presence, userSocket, userLeft>>
  /\ UNCHANGED <<dbVars, sfuVars, ctlVars, extVars>>

\* role = broadcast.hostId === socket.user.id ? 'host' : 'listener'
JoinRole(s, b) == IF HostOf(b) = UserOf(s) THEN "host" ELSE "listener"

\* The row Session.create makes for socket s joining broadcast b
NewSession(s, b) ==
  [bid |-> b, uid |-> UserOf(s), role |-> JoinRole(s, b), socket |-> s,
   status |-> "connected", transportId |-> 0, isHandRaised |-> FALSE,
   isMuted |-> FALSE, producerId |-> 0]

\* Session.create resolved: the row exists, this.activeSessions.set(socket.id,
\* ...), socket.join(room); parked at `await Session.count`
JoinCreated(g) ==
  /\ gw[g].pc = "joinCreate"
  /\ sessions' = Append(sessions, NewSession(gw[g].socket, gw[g].bid))
  /\ activeSessions' = [activeSessions EXCEPT ![gw[g].socket] = Len(sessions) + 1]
  /\ gw' = [gw EXCEPT ![g].pc = "joinCount", ![g].sid = Len(sessions) + 1]
  /\ UNCHANGED <<presence, userSocket, userLeft, bstatus, listenerCount>>
  /\ UNCHANGED <<sfuVars, ctlVars, extVars>>

\* Session.count resolved; broadcastService.updateListenerCount(b, count) is
\* parked at its `await Broadcast.findByPk`
JoinCounted(g) ==
  /\ gw[g].pc = "joinCount"
  /\ gw' = [gw EXCEPT ![g].pc = "joinUpdFind", ![g].count = ConnectedCount(gw[g].bid)]
  /\ UNCHANGED <<activeSessions, presence, userSocket, userLeft>>
  /\ UNCHANGED <<dbVars, sfuVars, ctlVars, extVars>>

\* updateListenerCount: the row is back (it exists: rows are never deleted),
\* parked at `await broadcast.update(updateData)`
JoinUpdFound(g) ==
  /\ gw[g].pc = "joinUpdFind"
  /\ gw' = [gw EXCEPT ![g].pc = "joinUpdate"]
  /\ UNCHANGED <<activeSessions, presence, userSocket, userLeft>>
  /\ UNCHANGED <<dbVars, sfuVars, ctlVars, extVars>>

\* broadcast.update({currentListenerCount: count}) done; parked at redis.sadd
JoinUpdated(g) ==
  /\ gw[g].pc = "joinUpdate"
  /\ listenerCount' = [listenerCount EXCEPT ![gw[g].bid] = gw[g].count]
  /\ gw' = [gw EXCEPT ![g].pc = "joinSadd"]
  /\ UNCHANGED <<activeSessions, presence, userSocket, userLeft, bstatus, sessions>>
  /\ UNCHANGED <<sfuVars, ctlVars, extVars>>

\* redis.sadd(`broadcast:${b}:users`, userId) done; parked at redis.set
JoinPresenceAdded(g) ==
  /\ gw[g].pc = "joinSadd"
  /\ presence' = [presence EXCEPT ![gw[g].bid] = @ \cup {UserOf(gw[g].socket)}]
  /\ gw' = [gw EXCEPT ![g].pc = "joinSet"]
  /\ UNCHANGED <<activeSessions, userSocket, userLeft>>
  /\ UNCHANGED <<dbVars, sfuVars, ctlVars, extVars>>

\* redis.set(`user:${id}:socket`, socket.id) done; 'userJoined' goes to the
\* room and 'joined' to the caller
JoinSocketSet(g) ==
  /\ gw[g].pc = "joinSet"
  /\ userSocket' = [userSocket EXCEPT ![UserOf(gw[g].socket)] = gw[g].socket]
  /\ gw' = [gw EXCEPT ![g].pc = "joined"]
  /\ UNCHANGED <<activeSessions, presence, userLeft>>
  /\ UNCHANGED <<dbVars, sfuVars, ctlVars, extVars>>

\* socket.on('leave') and socket.on('disconnect'), which only awaits
\* handleLeave: return when this.activeSessions has no entry for the socket,
\* else park at `await Session.update` with the entry's session and broadcast
HandleLeave(g, s) ==
  /\ GwFree(g)
  /\ gw' = [gw EXCEPT ![g] =
       IF activeSessions[s] = 0
         THEN [IdleGw EXCEPT !.pc = "leaveNone", !.socket = s]
         ELSE [IdleGw EXCEPT !.pc = "leaveUpdate", !.socket = s,
                             !.sid = activeSessions[s],
                             !.bid = sessions[activeSessions[s]].bid]]
  /\ UNCHANGED <<activeSessions, presence, userSocket, userLeft>>
  /\ UNCHANGED <<dbVars, sfuVars, ctlVars, extVars>>

\* Session.update({status: 'disconnected'}, {where: {id}}) done; parked at
\* redis.srem
LeaveSessionUpdated(g) ==
  /\ gw[g].pc = "leaveUpdate"
  /\ sessions' = [sessions EXCEPT ![gw[g].sid].status = "disconnected"]
  /\ gw' = [gw EXCEPT ![g].pc = "leaveSrem"]
  /\ UNCHANGED <<activeSessions, presence, userSocket, userLeft, bstatus, listenerCount>>
  /\ UNCHANGED <<sfuVars, ctlVars, extVars>>

\* redis.srem(`broadcast:${b}:users`, userId) done; parked at redis.del
LeavePresenceRemoved(g) ==
  /\ gw[g].pc = "leaveSrem"
  /\ presence' = [presence EXCEPT ![gw[g].bid] = @ \ {UserOf(gw[g].socket)}]
  /\ gw' = [gw EXCEPT ![g].pc = "leaveDel"]
  /\ UNCHANGED <<activeSessions, userSocket, userLeft>>
  /\ UNCHANGED <<dbVars, sfuVars, ctlVars, extVars>>

\* redis.del(`user:${id}:socket`) done; socket.leave(room); parked at
\* `await Session.count`
LeaveSocketDeleted(g) ==
  /\ gw[g].pc = "leaveDel"
  /\ userSocket' = [userSocket EXCEPT ![UserOf(gw[g].socket)] = 0]
  /\ gw' = [gw EXCEPT ![g].pc = "leaveCount"]
  /\ UNCHANGED <<activeSessions, presence, userLeft>>
  /\ UNCHANGED <<dbVars, sfuVars, ctlVars, extVars>>

\* Session.count resolved; updateListenerCount is parked at its findByPk
LeaveCounted(g) ==
  /\ gw[g].pc = "leaveCount"
  /\ gw' = [gw EXCEPT ![g].pc = "leaveUpdFind", ![g].count = ConnectedCount(gw[g].bid)]
  /\ UNCHANGED <<activeSessions, presence, userSocket, userLeft>>
  /\ UNCHANGED <<dbVars, sfuVars, ctlVars, extVars>>

\* updateListenerCount: the row is back, parked at `await broadcast.update`
LeaveUpdFound(g) ==
  /\ gw[g].pc = "leaveUpdFind"
  /\ gw' = [gw EXCEPT ![g].pc = "leaveUpdCount"]
  /\ UNCHANGED <<activeSessions, presence, userSocket, userLeft>>
  /\ UNCHANGED <<dbVars, sfuVars, ctlVars, extVars>>

\* broadcast.update done: 'userLeft' goes to the room and
\* this.activeSessions.delete(socket.id) runs, here for the first time in
\* the handler.  Nothing of the MediasoupHandler is called on the way.
LeaveUpdated(g) ==
  /\ gw[g].pc = "leaveUpdCount"
  /\ listenerCount' = [listenerCount EXCEPT ![gw[g].bid] = gw[g].count]
  /\ userLeft' = [userLeft EXCEPT ![gw[g].socket] = @ + 1]
  /\ activeSessions' = [activeSessions EXCEPT ![gw[g].socket] = 0]
  /\ gw' = [gw EXCEPT ![g].pc = "left"]
  /\ UNCHANGED <<presence, userSocket, bstatus, sessions>>
  /\ UNCHANGED <<sfuVars, ctlVars, extVars>>

\* socket.on('raiseHand'): 'Not in broadcast' without an activeSessions
\* entry, else park at `await Session.update`
HandleRaiseHand(g, s) ==
  /\ GwFree(g)
  /\ gw' = [gw EXCEPT ![g] =
       IF activeSessions[s] = 0
         THEN [IdleGw EXCEPT !.pc = "errNotIn", !.socket = s]
         ELSE [IdleGw EXCEPT !.pc = "raiseUpdate", !.socket = s,
                             !.sid = activeSessions[s]]]
  /\ UNCHANGED <<activeSessions, presence, userSocket, userLeft>>
  /\ UNCHANGED <<dbVars, sfuVars, ctlVars, extVars>>

\* Session.update({isHandRaised: true}, {where: {id}}) done; 'handRaised'
RaiseHandUpdated(g) ==
  /\ gw[g].pc = "raiseUpdate"
  /\ sessions' = [sessions EXCEPT ![gw[g].sid].isHandRaised = TRUE]
  /\ gw' = [gw EXCEPT ![g].pc = "handRaised"]
  /\ UNCHANGED <<activeSessions, presence, userSocket, userLeft, bstatus, listenerCount>>
  /\ UNCHANGED <<sfuVars, ctlVars, extVars>>

\* socket.on('lowerHand'): return without an activeSessions entry, else park
\* at `await Session.update`
HandleLowerHand(g, s) ==
  /\ GwFree(g)
  /\ gw' = [gw EXCEPT ![g] =
       IF activeSessions[s] = 0
         THEN [IdleGw EXCEPT !.pc = "lowerNone", !.socket = s]
         ELSE [IdleGw EXCEPT !.pc = "lowerUpdate", !.socket = s,
                             !.sid = activeSessions[s]]]
  /\ UNCHANGED <<activeSessions, presence, userSocket, userLeft>>
  /\ UNCHANGED <<dbVars, sfuVars, ctlVars, extVars>>

\* Session.update({isHandRaised: false}, {where: {id}}) done; 'handLowered'
LowerHandUpdated(g) ==
  /\ gw[g].pc = "lowerUpdate"
  /\ sessions' = [sessions EXCEPT ![gw[g].sid].isHandRaised = FALSE]
  /\ gw' = [gw EXCEPT ![g].pc = "handLowered"]
  /\ UNCHANGED <<activeSessions, presence, userSocket, userLeft, bstatus, listenerCount>>
  /\ UNCHANGED <<sfuVars, ctlVars, extVars>>

\* socket.on('muteUser') with data {broadcastId: b, userId: u}: 'Only host
\* can mute users' unless the socket's activeSessions entry has role host,
\* else park at `await redis.get`
HandleMuteUser(g, s, b, u) ==
  /\ GwFree(g)
  /\ gw' = [gw EXCEPT ![g] =
       IF activeSessions[s] = 0 \/ JoinRole(s, sessions[activeSessions[s]].bid) # "host"
         THEN [IdleGw EXCEPT !.pc = "errNotHost", !.socket = s]
         ELSE [IdleGw EXCEPT !.pc = "muteGet", !.socket = s, !.bid = b, !.target = u]]
  /\ UNCHANGED <<activeSessions, presence, userSocket, userLeft>>
  /\ UNCHANGED <<dbVars, sfuVars, ctlVars, extVars>>

\* redis.get(`user:${u}:socket`) resolved; 'muted' goes to that socket when
\* there is one; parked at `await Session.update`
MuteSocketRead(g) ==
  /\ gw[g].pc = "muteGet"
  /\ gw' = [gw EXCEPT ![g].pc = "muteUpdate"]
  /\ notified' = IF userSocket[gw[g].target] # 0
                   THEN notified \cup {[socket |-> userSocket[gw[g].target],
                                         event |-> "muted"]}
                   ELSE notified
  /\ UNCHANGED <<activeSessions, presence, userSocket, userLeft, kicked>>
  /\ UNCHANGED <<dbVars, sfuVars, ctlVars, mediaVars, opsVars, healthVars>>

\* sessionInfo.role of the socket's activeSessions entry, "none" without one
sessionRole(s) ==
  IF activeSessions[s] = 0 THEN "none"
  ELSE JoinRole(s, sessions[activeSessions[s]].bid)

\* The head of handleRemoveUser without the role test.
HandleRemoveUserUnchecked(g, s, b, u) ==
  /\ GwFree(g)
  /\ gw' = [gw EXCEPT ![g] =
       [IdleGw EXCEPT !.pc = "removeGet", !.socket = s, !.bid = b, !.target = u]]
  /\ UNCHANGED <<activeSessions, presence, userSocket, userLeft>>
  /\ UNCHANGED <<dbVars, sfuVars, ctlVars, extVars>>

\* socket.on('removeUser') with data {broadcastId: b, userId: u}: 'Only host
\* can remove users' unless the socket's activeSessions entry has role host,
\* else park at `await redis.get`
HandleRemoveUser(g, s, b, u) ==
  /\ GwFree(g)
  /\ gw' = [gw EXCEPT ![g] =
       IF sessionRole(s) # "host"
         THEN [IdleGw EXCEPT !.pc = "errRemoveNotHost", !.socket = s]
         ELSE [IdleGw EXCEPT !.pc = "removeGet", !.socket = s, !.bid = b, !.target = u]]
  /\ UNCHANGED <<activeSessions, presence, userSocket, userLeft>>
  /\ UNCHANGED <<dbVars, sfuVars, ctlVars, extVars>>

\* redis.get(`user:${u}:socket`) resolved: with a socket id, 'removed' goes to
\* it and the connection is disconnected
RemoveSocketRead(g) ==
  /\ gw[g].pc = "removeGet"
  /\ gw' = [gw EXCEPT ![g].pc = "removed"]
  /\ LET t == userSocket[gw[g].target]
     IN IF t # 0
          THEN /\ notified' = notified \cup {[socket |-> t, event |-> "removed"]}
               /\ kicked' = kicked \cup {t}
          ELSE UNCHANGED <<notified, kicked>>
  /\ UNCHANGED <<activeSessions, presence, userSocket, userLeft>>
  /\ UNCHANGED <<dbVars, sfuVars, ctlVars, mediaVars, opsVars, healthVars>>

\* socket.on('publishOffer'): 'Only host can publish' unless the socket's
\* activeSessions entry has role host, else 'publishAccepted' to the caller
HandlePublishOffer(g, s, b) ==
  /\ GwFree(g)
  /\ gw' = [gw EXCEPT ![g] =
       IF sessionRole(s) # "host"
         THEN [IdleGw EXCEPT !.pc = "errPublishNotHost", !.socket = s]
         ELSE [IdleGw EXCEPT !.pc = "publishAccepted", !.socket = s, !.bid = b]]
  /\ UNCHANGED <<activeSessions, presence, userSocket, userLeft>>
  /\ UNCHANGED <<dbVars, sfuVars, ctlVars, extVars>>

\* The values Session.update({isMuted: true}, ...) writes to a row
MuteRowAsListener(row) == [row EXCEPT !.isMuted = TRUE, !.role = "listener"]

MuteRow(row) == [row EXCEPT !.isMuted = TRUE]

\* Session.update({isMuted: true}, {where: {broadcastId, userId}}) done
MuteUpdated(g) ==
  /\ gw[g].pc = "muteUpdate"
  /\ sessions' = [i \in DOMAIN sessions |->
       IF sessions[i].bid = gw[g].bid /\ sessions[i].uid = gw[g].target
         THEN MuteRow(sessions[i]) ELSE sessions[i]]
  /\ gw' = [gw EXCEPT ![g].pc = "muted"]
  /\ UNCHANGED <<activeSessions, presence, userSocket, userLeft, bstatus, listenerCount>>
  /\ UNCHANGED <<sfuVars, ctlVars, extVars>>


\* ------------------------------------------------------ ScalingOrchestrator

NoMetrics == 0 - 1
Min(S) == CHOOSE x \in S : \A y \in S : x <= y

\* Math.ceil(a / b) for integers a >= 0, b > 0
Ceil(a, b) == (a + b - 1) \div b

\* A handler: the await it is parked at (pc), what started it (kind), and the
\* locals of the functions on its stack.
IdleCtl == [pc |-> "idle", kind |-> "none", ret |-> "none", n |-> 0, cur |-> 0,
            ids |-> {}, marked |-> {}, start |-> 0, wake |-> 0, done |-> 0,
            bid |-> 0, region |-> "none", obj |-> 0, todo |-> <<>>, stage |-> "none"]

\* The lowest slot of the handler table that is free.
CtlFree(p) == cp[p].pc = "idle" /\ \A r \in CtlIds : r < p => cp[r].pc # "idle"

\* Date.now() - this.lastScaleAction < this.config.scaling.cooldownPeriod
InCooldown == now - lastScaleAction < cooldownPeriod

\* Array.from(this.metrics.values()).reduce((sum, m) => sum + m.listenerCount, 0)
RECURSIVE SumLoad(_)
SumLoad(S) ==
  IF S = {} THEN 0
  ELSE LET i == Min(S) IN metrics[i] + SumLoad(S \ {i})
TotalLoad == SumLoad({i \in InstanceIds : metrics[i] # NoMetrics})

\* scaleUp: Math.ceil(targetLoad / targetListenersPerInstance); the target
\* load is carried in half listeners (load2 = 2 * targetLoad) because the
\* timer passes totalListeners * 1.5
InstancesNeededUp(load2) == Ceil(load2, 2 * targetListenersPerInstance)

\* scaleUp: Math.min(instancesNeeded - current, maxInstances - current)
instancesToAdd(load2, current) ==
  LET a == InstancesNeededUp(load2) - current
      b == maxInstances - current
  IN IF a < b THEN a ELSE b

\* scaleDown: Math.max(current - instancesNeeded, current - minInstances)
instancesToRemove(current, totalLoad) ==
  LET a == current - Ceil(totalLoad, targetListenersPerInstance)
      b == current - minInstances
  IN IF a > b THEN a ELSE b

\* (aMetrics?.listenerCount || 0)
LoadOf(i) == IF metrics[i] = NoMetrics THEN 0 ELSE metrics[i]

\* scaleDown without its sort: the first k entries of this.instances in
\* whatever order the registry holds them
FirstInRegistry(k) == {V \in SUBSET instances : Cardinality(V) = k}

\* scaleDown: the first k entries of this.instances sorted by ascending
\* listenerCount; entries of equal load keep the map's insertion order, which
\* the registry decides, so every least-loaded choice of k is possible.
LeastLoaded(k) ==
  {V \in SUBSET instances :
     /\ Cardinality(V) = k
     /\ \A v \in V, w \in instances \ V : LoadOf(v) <= LoadOf(w)}

\* drainInstances: no drained instance has metrics with listenerCount > 0
neverDrained(ids) == FALSE
allDrained(ids) == \A i \in ids : ~(metrics[i] # NoMetrics /\ metrics[i] > 0)

\* drainInstances: the loop test `Date.now() - startTime < maxDrainTime`
DrainLoopNeverEnds(start) == TRUE
DrainLoopOpen(start) == now - start < maxDrainTime

\* --- activateCDN, addRelayNode and the timer's broadcast loop

\* selectOptimalRegion(distribution): the first entry with the strictly
\* largest count among the configured regions, regions[0] when there is none
RECURSIVE selectFrom(_, _, _)
selectFrom(d, maxListeners, optimalRegion) ==
  IF d = <<>> THEN optimalRegion
  ELSE IF Head(d).count > maxListeners
            /\ \E k \in DOMAIN Regions : Regions[k] = Head(d).region
         THEN selectFrom(Tail(d), Head(d).count, Head(d).region)
         ELSE selectFrom(Tail(d), maxListeners, optimalRegion)
selectOptimalRegion(d) == selectFrom(d, 0, Regions[1])

\* activateCDN(b) up to its first await: with no distribution registered for
\* b it parks at createCDNDistribution, with one at getMediaServerOrigin
ActivateCdnStart(r, b) ==
  IF cdnDistributions[b] = 0
    THEN [r EXCEPT !.pc = "acCreate", !.bid = b, !.obj = 0]
    ELSE [r EXCEPT !.pc = "acOrigin", !.bid = b, !.obj = cdnDistributions[b]]

\* addRelayNode(b, load) up to its first await, getListenerRegionDistribution.
\* The load only picks the instance type of the launch.
AddRelayStart(r, b) ==
  [r EXCEPT !.pc = "arRegions", !.bid = b, !.obj = 0, !.region = "none"]

\* The body of `for (const broadcast of broadcasts)` from the handler's
\* position (todo: broadcasts left, the head being the current one; stage:
\* which of the two tests is next) up to the next await or the loop's end.
RECURSIVE TickLoop(_)
TickLoop(r) ==
  IF r.todo = <<>> THEN IdleCtl
  ELSE LET h == Head(r.todo) IN
    IF r.stage = "cdn"
      THEN IF h.listenerCount >= cdnSwitchThreshold /\ ~h.cdnActivated
             THEN ActivateCdnStart([r EXCEPT !.stage = "relay"], h.id)
             ELSE TickLoop([r EXCEPT !.stage = "relay"])
      ELSE IF h.listenerCount >= relayActivationThreshold /\ ~h.relaysActivated
             THEN AddRelayStart([r EXCEPT !.stage = "cdn", !.todo = Tail(r.todo)], h.id)
             ELSE TickLoop([r EXCEPT !.stage = "cdn", !.todo = Tail(r.todo)])

\* activateCDN or addRelayNode has returned to its caller: the timer callback
\* goes on with its loop, a message handler ends.
ActivationReturn(r) ==
  IF r.kind = "tick"
    THEN TickLoop([r EXCEPT !.bid = 0, !.obj = 0, !.region = "none"])
    ELSE IdleCtl

\* Awaits of activateCDN and addRelayNode that change nothing the
\* orchestrator reads, and the await each is followed by:
\*   activateCDN: getMediaServerOrigin, updateCDNOrigin, enableHLSPackaging,
\*                updateDNSForCDN, pubsub.publish
\*   addRelayNode: getUpstreamServer -> launchRelayInstance;
\*                 updateRoutingRules -> pubsub.publish
PlainAwaits == {"acOrigin", "acUpdate", "acHls", "acDns", "acPublish",
                "arUpstream", "arRouting", "arPublish"}
AfterAwait(r) ==
  CASE r.pc = "acOrigin" -> [r EXCEPT !.pc = "acUpdate"]
    [] r.pc = "acUpdate" -> [r EXCEPT !.pc = "acHls"]
    [] r.pc = "acHls" -> [r EXCEPT !.pc = "acDns"]
    [] r.pc = "acDns" -> [r EXCEPT !.pc = "acPublish"]
    [] r.pc = "acPublish" -> ActivationReturn(r)
    [] r.pc = "arUpstream" -> [r EXCEPT !.pc = "arLaunch"]
    [] r.pc = "arRouting" -> [r EXCEPT !.pc = "arPublish"]
    [] r.pc = "arPublish" -> ActivationReturn(r)

\* --- scaleUp, scaleDown, drainInstances as seen from their callers

\* A handler whose scaleUp / scaleDown call has returned: the timer callback
\* goes on to `await this.getActiveBroadcasts()`, a message handler ends.
AfterScaleGated(r) ==
  IF r.kind = "tick" /\ ~InCooldown
    THEN [IdleCtl EXCEPT !.pc = "tickBroadcasts", !.kind = "tick"]
  ELSE IdleCtl
AfterScale(r) ==
  IF r.kind = "tick" THEN [IdleCtl EXCEPT !.pc = "tickBroadcasts", !.kind = "tick"]
  ELSE IdleCtl

\* scaleUp up to its first await: the cooldown test, the arithmetic, and
\* the call of scaleECSService(instancesToAdd)
ScaleUpStart(r, load2) ==
  IF InCooldown THEN AfterScale(r)
  ELSE LET cur == Cardinality(instances)
           n == instancesToAdd(load2, cur)
       IN IF n <= 0 THEN AfterScale(r)
          ELSE [r EXCEPT !.pc = "suLaunch", !.n = n, !.cur = cur, !.start = now]

\* drainInstances(ids) up to its first await (redis.hset of the first id)
DrainStart(r, ids, ret) ==
  [r EXCEPT !.pc = "drainMark", !.ids = ids, !.marked = {}, !.ret = ret]

\* scaleDown after the victims are chosen: `await this.drainInstances(...)`
SkipDrain(r, V) == [r EXCEPT !.pc = "sdTerminate", !.ids = V]
AfterVictimsChosen(r, V) == DrainStart(r, V, "sdTerminate")

\* scaleDown up to its first await, V being the instances selected
ScaleDownStart(r, V) ==
  IF V = {} THEN AfterScale(r)
  ELSE AfterVictimsChosen([r EXCEPT !.n = Cardinality(V),
                                    !.cur = Cardinality(instances)], V)

\* The selections scaleDown can make now: none in the cooldown or with
\* nothing to remove
Victims ==
  LET k == instancesToRemove(Cardinality(instances), TotalLoad)
  IN IF InCooldown \/ k <= 0 THEN {{}} ELSE LeastLoaded(k)

\* drainInstances has returned to its caller, which runs to its next await:
\* scaleDown calls terminateECSInstances, handleUnhealthyInstance calls
\* replaceInstance.
DrainReturn(r) == [r EXCEPT !.pc = r.ret, !.done = now]

\* One evaluation of the polling loop at the present time:
\*   while (Date.now() - startTime < maxDrainTime) {
\*     if (allDrained) return;  await sleep(5000) }
DrainLoop(r) ==
  IF DrainLoopOpen(r.start)
    THEN IF allDrained(r.ids) THEN DrainReturn(r)
         ELSE [r EXCEPT !.pc = "drainSleep", !.wake = now + PollInterval]
    ELSE DrainReturn(r)

\* --- clock

\* Timers that are armed: the auto-scaling interval and every drain asleep.
DrainTimers == {cp[p].wake : p \in {r \in CtlIds : cp[r].pc = "drainSleep"}}
PendingTimers == {nextTick} \cup DrainTimers

\* Time passes until the next armed timer is due, up to the time limit.
AdvanceTo(T, limit) ==
  /\ T # {}
  /\ now < Min(T)
  /\ Min(T) <= limit
  /\ now' = Min(T)
  /\ UNCHANGED <<nextTick, cp, scaleVars, actVars>>
  /\ UNCHANGED <<sfuVars, dbVars, gwVars, extVars>>

Advance == AdvanceTo(PendingTimers, MaxTime)
AdvanceOnePeriod == AdvanceTo(PendingTimers, Epoch + TickInterval)
AdvanceDrain == AdvanceTo(DrainTimers, DrainHorizon)

\* Redis and provider calls of a drain take less than a polling period: the
\* clock moves to the next wake time only with no such call pending.
AdvanceQuiet ==
  /\ \A p \in CtlIds : cp[p].pc \in {"idle", "drainSleep"}
  /\ AdvanceDrain

\* --- environment of the controller

\* 'orchestrator:metrics' from a running instance: processMetrics stores the
\* sample in this.metrics
ProcessMetrics(i, n) ==
  /\ i \in instances
  /\ metrics[i] # n
  /\ metrics' = [metrics EXCEPT ![i] = n]
  /\ UNCHANGED <<lastScaleAction, scalingHistory, instances, instState,
                 provisioned, launchLog>>
  /\ UNCHANGED <<now, nextTick, cp, actVars>>
  /\ UNCHANGED <<sfuVars, dbVars, gwVars, extVars>>

\* Averages the aggregated metrics can show: CPU over target, memory over
\* target, and neither.
FleetHigh == {[cpu |-> 85, mem |-> 50], [cpu |-> 50, mem |-> 85]}
FleetMid == {[cpu |-> 50, mem |-> 50], [cpu |-> 20, mem |-> 50]}
FleetLow == {[cpu |-> 20, mem |-> 20]}

\* Listener counts getActiveBroadcasts can report for a broadcast, and the
\* region distributions the presence hash can hold (entries in the hash's
\* order).
ListenerSamples == {0, cdnSwitchThreshold, relayActivationThreshold}
RegionDistributions ==
  { <<>>,
    <<[region |-> "eu-west-1", count |-> 3], [region |-> "us-east-1", count |-> 2]>>,
    <<[region |-> "us-east-1", count |-> 1], [region |-> "eu-west-1", count |-> 1]>>,
    <<[region |-> "unknown", count |-> 5], [region |-> "ap-southeast-1", count |-> 1]>> }

\* --- processMetrics with its timestamp, and startMetricsCollection

\* processMetrics: this.metrics.set(instanceId, {...metrics, timestamp:
\* Date.now()}).  Nothing in the orchestrator reads the timestamp, which
\* ProcessMetrics leaves out.
ProcessMetricsAt(i, n) ==
  /\ i \in instances
  /\ metrics[i] # n \/ metricsAt[i] # now
  /\ metrics' = [metrics EXCEPT ![i] = n]
  /\ metricsAt' = [metricsAt EXCEPT ![i] = now]
  /\ UNCHANGED <<lastScaleAction, scalingHistory, instances, instState,
                 provisioned, launchLog>>
  /\ UNCHANGED <<now, nextTick, cp, actVars, crashed, peer, aggregated, nextCollect>>
  /\ UNCHANGED <<sfuVars, dbVars, gwVars, mediaVars, hostVars, healthVars>>

\* The 30 s interval fires: the callback sums listenerCount over
\* this.metrics.values() and parks at `await this.redis.hset(...)`.  With
\* every handler slot taken the period passes unobserved.
CollectFire ==
  /\ now >= nextCollect
  /\ nextCollect' = nextCollect + CollectInterval
  /\ IF \E p \in CtlIds : CtlFree(p)
       THEN cp' = [cp EXCEPT ![CHOOSE p \in CtlIds : CtlFree(p)] =
                     [IdleCtl EXCEPT !.kind = "collect", !.pc = "mcStore",
                                     !.n = TotalLoad]]
       ELSE UNCHANGED cp
  /\ UNCHANGED <<now, nextTick, scaleVars, actVars, crashed, peer, metricsAt, aggregated>>
  /\ UNCHANGED <<sfuVars, dbVars, gwVars, mediaVars, hostVars, healthVars>>

\* redis.hset('metrics:aggregated', 'latest', ...) done; parked at
\* `await this.redis.xadd('metrics:history', ...)`
CollectStored(p) ==
  /\ cp[p].pc = "mcStore"
  /\ aggregated' = cp[p].n
  /\ cp' = [cp EXCEPT ![p].pc = "mcHistory"]
  /\ UNCHANGED <<now, nextTick, scaleVars, actVars, crashed, peer, metricsAt, nextCollect>>
  /\ UNCHANGED <<sfuVars, dbVars, gwVars, mediaVars, hostVars, healthVars>>

\* redis.xadd done: 'metrics' is emitted and the callback returns
CollectLogged(p) ==
  /\ cp[p].pc = "mcHistory"
  /\ cp' = [cp EXCEPT ![p] = IdleCtl]
  /\ UNCHANGED <<now, nextTick, scaleVars, actVars>>
  /\ UNCHANGED <<sfuVars, dbVars, gwVars, extVars>>

\* Time passes until the metrics-collection interval is due.
AdvanceCollect == AdvanceTo({nextCollect}, MaxTime)

\* --- scaleUp

\* handleScalingRequest({type: 'scale-up', targetLoad})
MsgScaleUp(p, targetLoad) ==
  /\ CtlFree(p)
  /\ LET r2 == ScaleUpStart([IdleCtl EXCEPT !.kind = "msg"], 2 * targetLoad)
     IN /\ cp' = [cp EXCEPT ![p] = r2]
        /\ launchLog' = IF r2.pc = "suLaunch" THEN Append(launchLog, now) ELSE launchLog
  /\ UNCHANGED <<lastScaleAction, scalingHistory, instances, metrics, instState,
                 provisioned>>
  /\ UNCHANGED <<now, nextTick, actVars>>
  /\ UNCHANGED <<sfuVars, dbVars, gwVars, extVars>>

\* The next n instance ids of the provider.
NewInstances(n) == (provisioned + 1)..(provisioned + n)

\* scaleECSService(instancesToAdd) resolved: the new instances are in the
\* registry; scaleUp stamps lastScaleAction and records the event
LaunchDone(p) ==
  /\ cp[p].pc = "suLaunch"
  /\ provisioned + cp[p].n <= MaxInstanceIds
  /\ instances' = instances \cup NewInstances(cp[p].n)
  /\ provisioned' = provisioned + cp[p].n
  /\ lastScaleAction' = now
  /\ scalingHistory' = Append(scalingHistory,
       [type |-> "scale-up", timestamp |-> now, instances |-> cp[p].n])
  /\ cp' = [cp EXCEPT ![p] = AfterScale(cp[p])]
  /\ UNCHANGED <<metrics, instState, launchLog>>
  /\ UNCHANGED <<now, nextTick, actVars>>
  /\ UNCHANGED <<sfuVars, dbVars, gwVars, extVars>>

\* scaleECSService(instancesToAdd) rejected.  scaleUp has no try/catch, nor
\* have handleScalingRequest, handleRedisMessage, the pubsub 'message'
\* listener and the auto-scaling callback, and no 'unhandledRejection'
\* handler is installed: the handler ends where it is and its promise is
\* rejected unhandled, which terminates the process (fatal) or is reported
\* as a warning, as the runtime decides.
LaunchFailed(p, fatal) ==
  /\ cp[p].pc = "suLaunch"
  /\ cp' = [cp EXCEPT ![p] = IdleCtl]
  /\ crashed' = fatal
  /\ UNCHANGED <<now, nextTick, scaleVars, actVars, peer, metricsAt, aggregated, nextCollect>>
  /\ UNCHANGED <<sfuVars, dbVars, gwVars, mediaVars, hostVars, healthVars>>

\* --- scaleUp in a second orchestrator process

\* handleScalingRequest({type: 'scale-up', targetLoad}) in the second process:
\* scaleUp passes its own cooldown test and arithmetic and parks at
\* `await this.scaleECSService(instancesToAdd)`
PeerMsgScaleUp(targetLoad) ==
  /\ peer.pc = "idle"
  /\ ~(now - peer.lastScaleAction < cooldownPeriod)
  /\ instancesToAdd(2 * targetLoad, peer.instances) > 0
  /\ peer' = [peer EXCEPT !.pc = "suLaunch",
                          !.n = instancesToAdd(2 * targetLoad, peer.instances)]
  /\ UNCHANGED <<crashed, metricsAt, aggregated, nextCollect>>
  /\ UNCHANGED <<sfuVars, dbVars, gwVars, ctlVars, mediaVars, hostVars, healthVars>>

\* scaleECSService resolved in the second process: it stamps its
\* lastScaleAction
PeerLaunchDone ==
  /\ peer.pc = "suLaunch"
  /\ provisioned + peer.n <= MaxInstanceIds
  /\ provisioned' = provisioned + peer.n
  /\ peer' = [peer EXCEPT !.pc = "idle", !.lastScaleAction = now,
                          !.instances = @ + peer.n]
  /\ UNCHANGED <<lastScaleAction, scalingHistory, instances, metrics, instState,
                 launchLog>>
  /\ UNCHANGED <<now, nextTick, cp, actVars, crashed, metricsAt, aggregated, nextCollect>>
  /\ UNCHANGED <<sfuVars, dbVars, gwVars, mediaVars, hostVars, healthVars>>

\* --- scaleDown

\* handleScalingRequest({type: 'scale-down'})
MsgScaleDown(p) ==
  /\ CtlFree(p)
  /\ \E V \in Victims :
       cp' = [cp EXCEPT ![p] = ScaleDownStart([IdleCtl EXCEPT !.kind = "msg"], V)]
  /\ UNCHANGED <<now, nextTick, scaleVars, actVars>>
  /\ UNCHANGED <<sfuVars, dbVars, gwVars, extVars>>

\* drainInstances: redis.hset(`instance:${id}`, 'state', 'draining') and the
\* 'drain' control message for the next instance of the list; after the last
\* one startTime is taken and the polling loop is entered
DrainMark(p) ==
  /\ cp[p].pc = "drainMark"
  /\ LET i == Min(cp[p].ids \ cp[p].marked)
         r == [cp[p] EXCEPT !.marked = @ \cup {i}]
     IN /\ instState' = [instState EXCEPT ![i] = "draining"]
        /\ cp' = [cp EXCEPT ![p] = IF r.marked = r.ids
                                     THEN DrainLoop([r EXCEPT !.start = now])
                                     ELSE r]
  /\ UNCHANGED <<lastScaleAction, scalingHistory, instances, metrics,
                 provisioned, launchLog>>
  /\ UNCHANGED <<now, nextTick, actVars>>
  /\ UNCHANGED <<sfuVars, dbVars, gwVars, extVars>>

\* drainInstances: the 5 s sleep is over, the loop goes round
DrainWake(p) ==
  /\ cp[p].pc = "drainSleep"
  /\ now >= cp[p].wake
  /\ cp' = [cp EXCEPT ![p] = DrainLoop(cp[p])]
  /\ UNCHANGED <<now, nextTick, scaleVars, actVars>>
  /\ UNCHANGED <<sfuVars, dbVars, gwVars, extVars>>

\* terminateECSInstances(ids) resolved: the instances are gone from the
\* registry; scaleDown stamps lastScaleAction and records the event
TerminateDone(p) ==
  /\ cp[p].pc = "sdTerminate"
  /\ instances' = instances \ cp[p].ids
  /\ lastScaleAction' = now
  /\ scalingHistory' = Append(scalingHistory,
       [type |-> "scale-down", timestamp |-> now, instances |-> cp[p].n])
  /\ cp' = [cp EXCEPT ![p] = AfterScale(cp[p])]
  /\ UNCHANGED <<metrics, instState, provisioned, launchLog>>
  /\ UNCHANGED <<now, nextTick, actVars>>
  /\ UNCHANGED <<sfuVars, dbVars, gwVars, extVars>>

\* --- health remediation

\* handleUnhealthyInstance(i), called by the health-check loop for an
\* instance of the registry; parked at `await this.removeFromLoadBalancer`
CallHandleUnhealthyInstance(p, i) ==
  /\ CtlFree(p)
  /\ i \in instances
  /\ cp' = [cp EXCEPT ![p] = [IdleCtl EXCEPT !.kind = "health", !.pc = "huRemoveLb",
                                              !.ids = {i}]]
  /\ UNCHANGED <<now, nextTick, scaleVars, actVars>>
  /\ UNCHANGED <<sfuVars, dbVars, gwVars, extVars>>

\* removeFromLoadBalancer resolved: `await this.drainInstances([instanceId])`
HuRemovedFromLb(p) ==
  /\ cp[p].pc = "huRemoveLb"
  /\ cp' = [cp EXCEPT ![p] = DrainStart(cp[p], cp[p].ids, "huReplace")]
  /\ UNCHANGED <<now, nextTick, scaleVars, actVars>>
  /\ UNCHANGED <<sfuVars, dbVars, gwVars, extVars>>

\* The health-check loop moves on: the next entry of this.instances (I)
\* after the one just checked, or the end of the callback
HealthNext(r, I) ==
  LET rest == {i \in I : i > r.cur}
  IN IF rest = {} THEN IdleCtl
     ELSE [IdleCtl EXCEPT !.kind = "hloop", !.pc = "hcProbe", !.cur = Min(rest)]

\* replaceInstance(i) resolved: the instance has left the registry and its
\* replacement, when the provider has one, has entered it; 'instance:unhealthy'
\* is emitted.  Called from the health-check loop, the loop goes on.
HuReplaced(p) ==
  /\ cp[p].pc = "huReplace"
  /\ IF provisioned < MaxInstanceIds
       THEN /\ instances' = (instances \ cp[p].ids) \cup NewInstances(1)
            /\ provisioned' = provisioned + 1
       ELSE /\ instances' = instances \ cp[p].ids
            /\ UNCHANGED provisioned
  /\ cp' = [cp EXCEPT ![p] = IF cp[p].kind = "hloop" THEN HealthNext(cp[p], instances')
                               ELSE IdleCtl]
  /\ UNCHANGED <<lastScaleAction, scalingHistory, metrics, instState, launchLog>>
  /\ UNCHANGED <<now, nextTick, actVars>>
  /\ UNCHANGED <<sfuVars, dbVars, gwVars, extVars>>

\* --- startHealthChecking

\* The health-check interval fires: the callback enters its loop over
\* this.instances and parks at `await this.checkInstanceHealth(instance)` for
\* the first entry
HealthFire(p) ==
  /\ CtlFree(p)
  /\ instances # {}
  /\ cp' = [cp EXCEPT ![p] = [IdleCtl EXCEPT !.kind = "hloop", !.pc = "hcProbe",
                                              !.cur = Min(instances)]]
  /\ UNCHANGED <<now, nextTick, scaleVars, actVars>>
  /\ UNCHANGED <<sfuVars, dbVars, gwVars, extVars>>

\* instance.unhealthyCount after a check that never resets it.
countAfterCheckNoReset(c, healthy) == IF healthy THEN c ELSE c + 1

\* instance.unhealthyCount after a check: (unhealthyCount || 0) + 1 when it
\* failed, 0 when it succeeded
countAfterCheck(c, healthy) == IF healthy THEN 0 ELSE c + 1

\* checkInstanceHealth resolved with `healthy`: the count of the instance is
\* updated; at unhealthyThreshold the loop calls handleUnhealthyInstance and
\* parks at `await this.removeFromLoadBalancer`, otherwise it moves on
HealthChecked(p, healthy) ==
  /\ cp[p].pc = "hcProbe"
  /\ LET i == cp[p].cur
         c == countAfterCheck(unhealthyCount[i], healthy)
     IN /\ unhealthyCount' = [unhealthyCount EXCEPT ![i] = c]
        /\ failStreak' = [failStreak EXCEPT ![i] =
             IF healthy THEN 0
             ELSE IF @ < unhealthyThreshold THEN @ + 1 ELSE @]
        /\ cp' = [cp EXCEPT ![p] =
             IF ~healthy /\ c >= unhealthyThreshold
               THEN [cp[p] EXCEPT !.pc = "huRemoveLb", !.ids = {i}]
               ELSE HealthNext(cp[p], instances)]
  /\ UNCHANGED <<now, nextTick, scaleVars, actVars>>
  /\ UNCHANGED <<sfuVars, dbVars, gwVars, mediaVars, opsVars, hostVars>>

\* --- startAutoScaling

\* The 60 s interval fires: the callback starts and parks at
\* `await this.getAggregatedMetrics()`.  With every handler slot taken the
\* period passes unobserved.
TickFire ==
  /\ now >= nextTick
  /\ nextTick' = nextTick + TickInterval
  /\ IF \E p \in CtlIds : CtlFree(p)
       THEN cp' = [cp EXCEPT ![CHOOSE p \in CtlIds : CtlFree(p)] =
                     [IdleCtl EXCEPT !.kind = "tick", !.pc = "tickMetrics"]]
       ELSE UNCHANGED cp
  /\ UNCHANGED <<now, scaleVars, actVars>>
  /\ UNCHANGED <<sfuVars, dbVars, gwVars, extVars>>

\* getAggregatedMetrics(): the averages of the fleet and the listeners summed
\* over the latest sample of every instance
getAggregatedMetrics(f) ==
  [averageCPU |-> f.cpu, averageMemory |-> f.mem, totalListeners |-> TotalLoad]

\* The callback with the aggregate in hand: scaleUp('auto', totalListeners *
\* 1.5), or scaleDown('auto'), or neither
TickEvaluate(p, f) ==
  /\ cp[p].pc = "tickMetrics"
  /\ LET m == getAggregatedMetrics(f)
     IN IF m.averageCPU > targetCPU \/ m.averageMemory > targetMemory
          THEN LET r2 == ScaleUpStart(cp[p], 3 * m.totalListeners)
               IN /\ cp' = [cp EXCEPT ![p] = r2]
                  /\ launchLog' = IF r2.pc = "suLaunch" THEN Append(launchLog, now)
                                  ELSE launchLog
          ELSE IF m.averageCPU < scaleDownThreshold /\ m.averageMemory < scaleDownThreshold
            THEN /\ \E V \in Victims : cp' = [cp EXCEPT ![p] = ScaleDownStart(cp[p], V)]
                 /\ UNCHANGED launchLog
            ELSE /\ cp' = [cp EXCEPT ![p] = AfterScale(cp[p])]
                 /\ UNCHANGED launchLog
  /\ UNCHANGED <<lastScaleAction, scalingHistory, instances, metrics, instState,
                 provisioned>>
  /\ UNCHANGED <<now, nextTick, actVars>>
  /\ UNCHANGED <<sfuVars, dbVars, gwVars, extVars>>

\* getActiveBroadcasts(): every broadcast with the listener count L[b]; a
\* broadcast is flagged cdnActivated once a distribution is registered for
\* it and relaysActivated once a relay of it is registered
getActiveBroadcasts(L) ==
  [b \in Broadcasts |->
     [id |-> b, listenerCount |-> L[b],
      cdnActivated |-> cdnDistributions[b] # 0,
      relaysActivated |-> \E x \in relayInstances : x.id \in relayNodes /\ x.bid = b]]

\* getActiveBroadcasts() resolved: the callback enters its loop over the
\* broadcasts
TickBroadcasts(p, L) ==
  /\ cp[p].pc = "tickBroadcasts"
  /\ cp' = [cp EXCEPT ![p] = TickLoop([cp[p] EXCEPT !.todo = getActiveBroadcasts(L),
                                                    !.stage = "cdn"])]
  /\ UNCHANGED <<now, nextTick, scaleVars, actVars>>
  /\ UNCHANGED <<sfuVars, dbVars, gwVars, extVars>>

\* --- activateCDN and addRelayNode

\* handleScalingRequest({type: 'activate-cdn', broadcastId})
MsgActivateCdn(p, b) ==
  /\ CtlFree(p)
  /\ cp' = [cp EXCEPT ![p] = ActivateCdnStart([IdleCtl EXCEPT !.kind = "msg"], b)]
  /\ UNCHANGED <<now, nextTick, scaleVars, actVars>>
  /\ UNCHANGED <<sfuVars, dbVars, gwVars, extVars>>

\* createCDNDistribution(b) resolved with a new distribution, which
\* activateCDN registers; parked at getMediaServerOrigin
CdnCreated(p) ==
  /\ cp[p].pc = "acCreate"
  /\ Cardinality(cdnCreated) < MaxDistributions
  /\ LET id == Cardinality(cdnCreated) + 1
     IN /\ cdnCreated' = cdnCreated \cup {[id |-> id, bid |-> cp[p].bid]}
        /\ cdnDistributions' = [cdnDistributions EXCEPT ![cp[p].bid] = id]
        /\ cp' = [cp EXCEPT ![p] = [cp[p] EXCEPT !.pc = "acOrigin", !.obj = id]]
  /\ UNCHANGED <<relayNodes, relayInstances>>
  /\ UNCHANGED <<now, nextTick, scaleVars>>
  /\ UNCHANGED <<sfuVars, dbVars, gwVars, extVars>>

\* handleScalingRequest({type: 'add-relay', broadcastId, currentLoad})
MsgAddRelay(p, b) ==
  /\ CtlFree(p)
  /\ cp' = [cp EXCEPT ![p] = AddRelayStart([IdleCtl EXCEPT !.kind = "msg"], b)]
  /\ UNCHANGED <<now, nextTick, scaleVars, actVars>>
  /\ UNCHANGED <<sfuVars, dbVars, gwVars, extVars>>

\* getListenerRegionDistribution(b) resolved with d: the target region is
\* selected; parked at getUpstreamServer
RelayRegionsRead(p, d) ==
  /\ cp[p].pc = "arRegions"
  /\ cp' = [cp EXCEPT ![p] = [cp[p] EXCEPT !.pc = "arUpstream",
                                          !.region = selectOptimalRegion(d)]]
  /\ UNCHANGED <<now, nextTick, scaleVars, actVars>>
  /\ UNCHANGED <<sfuVars, dbVars, gwVars, extVars>>

\* launchRelayInstance(relayConfig) resolved with a new relay instance;
\* parked at configureRelay
RelayLaunched(p) ==
  /\ cp[p].pc = "arLaunch"
  /\ Cardinality(relayInstances) < MaxRelays
  /\ LET id == Cardinality(relayInstances) + 1
     IN /\ relayInstances' = relayInstances \cup
             {[id |-> id, bid |-> cp[p].bid, region |-> cp[p].region]}
        /\ cp' = [cp EXCEPT ![p] = [cp[p] EXCEPT !.pc = "arConfigure", !.obj = id]]
  /\ UNCHANGED <<relayNodes, cdnDistributions, cdnCreated>>
  /\ UNCHANGED <<now, nextTick, scaleVars>>
  /\ UNCHANGED <<sfuVars, dbVars, gwVars, extVars>>

\* configureRelay resolved: the relay is registered in this.relayNodes;
\* parked at updateRoutingRules
RelayConfigured(p) ==
  /\ cp[p].pc = "arConfigure"
  /\ relayNodes' = relayNodes \cup {cp[p].obj}
  /\ cp' = [cp EXCEPT ![p] = [cp[p] EXCEPT !.pc = "arRouting"]]
  /\ UNCHANGED <<cdnDistributions, relayInstances, cdnCreated>>
  /\ UNCHANGED <<now, nextTick, scaleVars>>
  /\ UNCHANGED <<sfuVars, dbVars, gwVars, extVars>>

\* One of the plain awaits of activateCDN / addRelayNode resolved
AwaitResolved(p) ==
  /\ cp[p].pc \in PlainAwaits
  /\ cp' = [cp EXCEPT ![p] = AfterAwait(cp[p])]
  /\ UNCHANGED <<now, nextTick, scaleVars, actVars>>
  /\ UNCHANGED <<sfuVars, dbVars, gwVars, extVars>>

\* ------------------------------------------------------------------- Init

InitSfu ==
  /\ nextWorkerIndex = 0
  /\ routers = [b \in Broadcasts |-> 0]
  /\ transports = {}
  /\ engineRouters = {}
  /\ sfuReq = [q \in ReqIds |-> IdleReq]
  /\ producers = {}
  /\ consumers = {}
  /\ mediaReq = [m \in MediaIds |-> IdleMedia]
  /\ deadWorkers = {}
  /\ exited = FALSE

InitDb ==
  /\ bstatus \in {f \in [Broadcasts -> {"absent", "live", "ended"}] : f[1] = "live"}
  /\ listenerCount = [b \in Broadcasts |-> 0]
  /\ sessions = <<>>

InitGw ==
  /\ activeSessions = [s \in Sockets |-> 0]
  /\ presence = [b \in Broadcasts |-> {}]
  /\ userSocket = [u \in Users |-> 0]
  /\ gw = [g \in GwIds |-> IdleGw]
  /\ userLeft = [s \in Sockets |-> 0]
  /\ notified = {}
  /\ kicked = {}

\* The orchestrator with the first k instances of the provider in its
\* registry, each reporting no listeners.
InitCtl(k) ==
  /\ now = Epoch
  /\ nextTick = Epoch + TickInterval
  /\ cp = [p \in CtlIds |-> IdleCtl]
  /\ crashed = FALSE
  /\ peer = [pc |-> "idle", n |-> 0, lastScaleAction |-> 0, instances |-> k]
  /\ metricsAt = [i \in InstanceIds |-> IF i <= k THEN Epoch ELSE 0]
  /\ aggregated = NoMetrics
  /\ nextCollect = Epoch + CollectInterval
  /\ unhealthyCount = [i \in InstanceIds |-> 0]
  /\ failStreak = [i \in InstanceIds |-> 0]
  /\ lastScaleAction = 0
  /\ scalingHistory = <<>>
  /\ instances = 1..k
  /\ metrics = [i \in InstanceIds |-> IF i <= k THEN 0 ELSE NoMetrics]
  /\ instState = [i \in InstanceIds |-> "none"]
  /\ relayNodes = {}
  /\ cdnDistributions = [b \in Broadcasts |-> 0]
  /\ provisioned = k
  /\ relayInstances = {}
  /\ cdnCreated = {}
  /\ launchLog = <<>>

\* The state after construction.
Init == InitSfu /\ InitDb /\ InitGw /\ InitCtl(0)

\* The orchestrator constructed over a database whose broadcasts are live,
\* with the first k instances registered.
InitOrchestrator(k) ==
  /\ InitSfu /\ InitGw /\ InitCtl(k)
  /\ bstatus = [b \in Broadcasts |-> "live"]
  /\ listenerCount = [b \in Broadcasts |-> 0]
  /\ sessions = <<>>

\* ------------------------------------------------------ SFU specification

NextSfu ==
  \/ \E q \in ReqIds, b \in Broadcasts : CallCreateRouter(q, b)
  \/ \E q \in ReqIds, b \in Broadcasts : CallCreateWebRtcTransport(q, b)
  \/ \E q \in ReqIds, b \in Broadcasts : RouteRtpCapabilities(q, b)
  \/ \E q \in ReqIds : RtpCapabilitiesFound(q)
  \/ \E q \in ReqIds : EngineRouterCreated(q)
  \/ \E q \in ReqIds : EngineTransportCreated(q)

SpecSfu == Init /\ [][NextSfu]_vars

\* ---------------------------------------------------- media specification
\* The SFU manager serving creation requests and closing what it holds.

NextMedia ==
  \/ \E q \in ReqIds, b \in Broadcasts : CallCreateRouter(q, b)
  \/ \E q \in ReqIds, b \in Broadcasts : CallCreateWebRtcTransport(q, b)
  \/ \E q \in ReqIds : EngineRouterCreated(q)
  \/ \E q \in ReqIds : EngineTransportCreated(q)
  \/ \E id \in 1..MaxReq : CallCloseTransport(id)
  \/ \E b \in Broadcasts : CallDeleteRouter(b)
  \/ \E b \in Broadcasts : CallCleanupBroadcast(b)

SpecMedia == Init /\ [][NextMedia]_vars

\* -------------------------------------------------- gateway specification

NextGw ==
  \/ \E g \in GwIds, s \in Sockets, b \in Broadcasts : HandleJoin(g, s, b)
  \/ \E g \in GwIds : JoinFound(g)
  \/ \E g \in GwIds : JoinCreated(g)
  \/ \E g \in GwIds : JoinCounted(g)
  \/ \E g \in GwIds : JoinUpdFound(g)
  \/ \E g \in GwIds : JoinUpdated(g)
  \/ \E g \in GwIds : JoinPresenceAdded(g)
  \/ \E g \in GwIds : JoinSocketSet(g)

SpecGw == Init /\ [][NextGw]_vars

\* -------------------------------------------------- session specification
\* The gateway from the state in which sockets 1 and 2 have joined live
\* broadcast 1, socket 1 as its host.

InitSession ==
  /\ InitSfu /\ InitCtl(0)
  /\ bstatus = [b \in Broadcasts |-> "live"]
  /\ sessions = <<NewSession(1, 1), NewSession(2, 1)>>
  /\ listenerCount = [b \in Broadcasts |-> IF b = 1 THEN 2 ELSE 0]
  /\ activeSessions = [s \in Sockets |-> IF s <= 2 THEN s ELSE 0]
  /\ presence = [b \in Broadcasts |-> IF b = 1 THEN {UserOf(1), UserOf(2)} ELSE {}]
  /\ userSocket = [u \in Users |-> IF u = UserOf(1) THEN 1
                                   ELSE IF u = UserOf(2) THEN 2 ELSE 0]
  /\ gw = [g \in GwIds |-> IdleGw]
  /\ userLeft = [s \in Sockets |-> 0]
  /\ notified = {}
  /\ kicked = {}

NextSession ==
  \/ \E g \in GwIds, s \in Sockets, b \in Broadcasts : HandleJoin(g, s, b)
  \/ \E g \in GwIds : JoinFound(g)
  \/ \E g \in GwIds : JoinCreated(g)
  \/ \E g \in GwIds : JoinCounted(g)
  \/ \E g \in GwIds : JoinUpdFound(g)
  \/ \E g \in GwIds : JoinUpdated(g)
  \/ \E g \in GwIds : JoinPresenceAdded(g)
  \/ \E g \in GwIds : JoinSocketSet(g)
  \/ \E g \in GwIds, s \in Sockets : HandleLeave(g, s)
  \/ \E g \in GwIds : LeaveSessionUpdated(g)
  \/ \E g \in GwIds : LeavePresenceRemoved(g)
  \/ \E g \in GwIds : LeaveSocketDeleted(g)
  \/ \E g \in GwIds : LeaveCounted(g)
  \/ \E g \in GwIds : LeaveUpdFound(g)
  \/ \E g \in GwIds : LeaveUpdated(g)
  \/ \E g \in GwIds, s \in Sockets : HandleRaiseHand(g, s)
  \/ \E g \in GwIds : RaiseHandUpdated(g)
  \/ \E g \in GwIds, s \in Sockets : HandleLowerHand(g, s)
  \/ \E g \in GwIds : LowerHandUpdated(g)
  \/ \E g \in GwIds, s \in Sockets, b \in Broadcasts, u \in Users :
       HandleMuteUser(g, s, b, u)
  \/ \E g \in GwIds : MuteSocketRead(g)
  \/ \E g \in GwIds : MuteUpdated(g)

SpecSession == InitSession /\ [][NextSession]_vars

\* -------------------------------------------------- release specification
\* The transports route and the leaving of connections, from the same state.

NextRelease ==
  \/ \E q \in ReqIds, b \in Broadcasts : RouteTransports(q, b)
  \/ \E q \in ReqIds : EngineRouterCreated(q)
  \/ \E q \in ReqIds : EngineTransportCreated(q)
  \/ \E q \in ReqIds : TransportSessionFound(q)
  \/ \E q \in ReqIds : TransportSessionUpdated(q)
  \/ \E g \in GwIds, s \in Sockets : HandleLeave(g, s)
  \/ \E g \in GwIds : LeaveSessionUpdated(g)
  \/ \E g \in GwIds : LeavePresenceRemoved(g)
  \/ \E g \in GwIds : LeaveSocketDeleted(g)
  \/ \E g \in GwIds : LeaveCounted(g)
  \/ \E g \in GwIds : LeaveUpdFound(g)
  \/ \E g \in GwIds : LeaveUpdated(g)

SpecRelease == InitSession /\ [][NextRelease]_vars

\* ------------------------------------------------ scale-up specification
\* The orchestrator from construction, with a fleet whose averages never
\* fall under the scale-down threshold and broadcasts without listeners.

NoListeners == [b \in Broadcasts |-> 0]

NextScaleUp ==
  \/ Advance
  \/ \E i \in InstanceIds, n \in 0..MaxListeners : ProcessMetrics(i, n)
  \/ TickFire
  \/ \E p \in CtlIds, f \in FleetHigh \cup FleetMid : TickEvaluate(p, f)
  \/ \E p \in CtlIds : TickBroadcasts(p, NoListeners)
  \/ \E p \in CtlIds, t \in 1..MaxTargetLoad : MsgScaleUp(p, t)
  \/ \E p \in CtlIds : LaunchDone(p)

SpecScaleUp == InitOrchestrator(0) /\ [][NextScaleUp]_vars

\* ------------------------------------------------- retirement specification
\* The orchestrator with maxInstances instances in its registry, retiring
\* them by scale-down requests and by health remediation.  Every retirement
\* starts early enough for its drain to time out within the observed time,
\* and every pending call and every due timer is eventually served.

InitRetire == InitOrchestrator(maxInstances)

DrainFitsHorizon == now + maxDrainTime <= DrainHorizon

StartScaleDown(p) == DrainFitsHorizon /\ MsgScaleDown(p)
StartRemediation(p, i) == DrainFitsHorizon /\ CallHandleUnhealthyInstance(p, i)

NextRetire ==
  \/ AdvanceQuiet
  \/ \E i \in InstanceIds, n \in 0..MaxListeners : ProcessMetrics(i, n)
  \/ \E p \in CtlIds : StartScaleDown(p)
  \/ \E p \in CtlIds, i \in InstanceIds : StartRemediation(p, i)
  \/ \E p \in CtlIds : HuRemovedFromLb(p)
  \/ \E p \in CtlIds : DrainMark(p)
  \/ \E p \in CtlIds : DrainWake(p)
  \/ \E p \in CtlIds : TerminateDone(p)
  \/ \E p \in CtlIds : HuReplaced(p)

FairRetire ==
  /\ WF_vars(AdvanceQuiet)
  /\ \A p \in CtlIds : /\ WF_vars(HuRemovedFromLb(p))
                       /\ WF_vars(DrainMark(p))
                       /\ WF_vars(DrainWake(p))
                       /\ WF_vars(TerminateDone(p))
                       /\ WF_vars(HuReplaced(p))

SpecRetire == InitRetire /\ [][NextRetire]_vars /\ FairRetire

\* --------------------------------------------------- scaling specification
\* The orchestrator with one instance in its registry, asked to scale up and
\* to scale down.

NextScaling ==
  \/ AdvanceQuiet
  \/ \E i \in InstanceIds, n \in 0..MaxListeners : ProcessMetrics(i, n)
  \/ \E p \in CtlIds, t \in 1..MaxTargetLoad : MsgScaleUp(p, t)
  \/ \E p \in CtlIds : LaunchDone(p)
  \/ \E p \in CtlIds : MsgScaleDown(p)
  \/ \E p \in CtlIds : DrainMark(p)
  \/ \E p \in CtlIds : DrainWake(p)
  \/ \E p \in CtlIds : TerminateDone(p)

SpecScaling == InitOrchestrator(minInstances) /\ [][NextScaling]_vars

\* ----------------------------------------------------- timer specification
\* The orchestrator from construction over one period of the auto-scaling
\* timer, with scale-up requests arriving before the timer fires.

NextTimer ==
  \/ AdvanceOnePeriod
  \/ TickFire
  \/ \E p \in CtlIds, f \in FleetHigh \cup FleetMid \cup FleetLow : TickEvaluate(p, f)
  \/ \E p \in CtlIds, L \in [Broadcasts -> ListenerSamples] : TickBroadcasts(p, L)
  \/ \E p \in CtlIds, t \in 1..MaxTargetLoad : MsgScaleUp(p, t)
  \/ \E p \in CtlIds : LaunchDone(p)
  \/ \E p \in CtlIds : CdnCreated(p)
  \/ \E p \in CtlIds, d \in RegionDistributions : RelayRegionsRead(p, d)
  \/ \E p \in CtlIds : RelayLaunched(p)
  \/ \E p \in CtlIds : RelayConfigured(p)
  \/ \E p \in CtlIds : AwaitResolved(p)

SpecTimer == InitOrchestrator(0) /\ [][NextTimer]_vars

\* ------------------------------------------------- activation specification
\* The orchestrator from construction with a fleet that needs no scaling,
\* activating CDN distributions and relays on the timer and on request.

NextActivation ==
  \/ AdvanceOnePeriod
  \/ TickFire
  \/ \E p \in CtlIds, f \in FleetMid : TickEvaluate(p, f)
  \/ \E p \in CtlIds, L \in [Broadcasts -> ListenerSamples] : TickBroadcasts(p, L)
  \/ \E p \in CtlIds, b \in Broadcasts : MsgActivateCdn(p, b)
  \/ \E p \in CtlIds : CdnCreated(p)
  \/ \E p \in CtlIds, b \in Broadcasts : MsgAddRelay(p, b)
  \/ \E p \in CtlIds, d \in RegionDistributions : RelayRegionsRead(p, d)
  \/ \E p \in CtlIds : RelayLaunched(p)
  \/ \E p \in CtlIds : RelayConfigured(p)
  \/ \E p \in CtlIds : AwaitResolved(p)

SpecActivation == InitOrchestrator(0) /\ [][NextActivation]_vars

\* ------------------------------------------------ end-broadcast specification
\* Transports, producers and consumers are made for the broadcasts while
\* POST /:id/end requests are served.

\* The ids a call can name: 0 is never registered.
TransportIds == 0..2
ProducerIds == 0..MaxMedia

NextEnd ==
  \/ \E q \in ReqIds, b \in Broadcasts : CallCreateWebRtcTransport(q, b)
  \/ \E q \in ReqIds : EngineRouterCreated(q)
  \/ \E q \in ReqIds : EngineTransportCreated(q)
  \/ \E m \in MediaIds, t \in {x.id : x \in transports} : CallCreateProducer(m, t)
  \/ \E m \in MediaIds : EngineProduced(m)
  \/ \E q \in ReqIds, b \in Broadcasts, role \in {"user", "admin"} :
       RouteEndBroadcast(q, b, role)
  \/ \E q \in ReqIds : EndFound(q)
  \/ \E q \in ReqIds : EndUpdated(q)
  \/ \E q \in ReqIds : EndSessionsUpdated(q)

SpecEnd == Init /\ [][NextEnd]_vars

\* --------------------------------------------------- worker specification
\* Routers and transports are requested while worker processes die; nothing
\* runs once the process has exited.

NextWorkers ==
  \/ \E q \in ReqIds, b \in Broadcasts : ~exited /\ CallCreateRouter(q, b)
  \/ \E q \in ReqIds, b \in Broadcasts : ~exited /\ CallCreateWebRtcTransport(q, b)
  \/ \E q \in ReqIds : ~exited /\ EngineRouterCreated(q)
  \/ \E q \in ReqIds : ~exited /\ EngineTransportCreated(q)
  \/ \E w \in Workers : ~exited /\ WorkerDied(w)
  \/ ProcessExit

SpecWorkers == Init /\ [][NextWorkers]_vars

\* ---------------------------------------------------- produce specification
\* Connect, produce, consume, pause and resume calls arrive with ids that may
\* or may not be registered, and transports are closed, after
\* createWebRtcTransport has been served once for broadcast 1 and once for
\* broadcast 2.

InitProduce ==
  /\ InitDb /\ InitGw /\ InitCtl(0)
  /\ nextWorkerIndex = 2 % NumWorkers
  /\ routers = [b \in Broadcasts |-> IF b <= 2 THEN b ELSE 0]
  /\ engineRouters = {[id |-> b, worker |-> b - 1, bid |-> b, closed |-> FALSE] :
                        b \in 1..2}
  /\ transports = {[id |-> NewTransportId(q), router |-> q] : q \in 1..2}
  /\ sfuReq = [q \in ReqIds |->
       IF q <= 2 THEN [pc |-> "done", kind |-> "transport", bid |-> q,
                       worker |-> q - 1, router |-> q, sid |-> 0]
       ELSE IdleReq]
  /\ producers = {}
  /\ consumers = {}
  /\ mediaReq = [m \in MediaIds |-> IdleMedia]
  /\ deadWorkers = {}
  /\ exited = FALSE

ProducerOps == {"pauseProducer", "resumeProducer"}
ConsumerOps == {"pauseConsumer", "resumeConsumer"}

NextProduce ==
  \/ \E id \in TransportIds : CallCloseTransport(id)
  \/ \E m \in MediaIds, t \in TransportIds : CallConnectTransport(m, t)
  \/ \E m \in MediaIds, t \in TransportIds : CallCreateProducer(m, t)
  \/ \E m \in MediaIds : EngineProduced(m)
  \/ \E m \in MediaIds, t \in TransportIds, pr \in ProducerIds, caps \in BOOLEAN :
       CallCreateConsumer(m, t, pr, caps)
  \/ \E m \in MediaIds : EngineConsumed(m)
  \/ \E m \in MediaIds, op \in ProducerOps, pr \in ProducerIds : CallProducerOp(m, op, pr)
  \/ \E m \in MediaIds, op \in ConsumerOps, c \in ProducerIds : CallConsumerOp(m, op, c)
  \/ \E m \in MediaIds : EngineSettled(m)

SpecProduce == InitProduce /\ [][NextProduce]_vars

\* ------------------------------------------------- host-only specification
\* Mute, remove and publish requests arrive from every connection, beside
\* leaves and disconnects, with sockets 1 and 2 joined to broadcast 1.

NextHost ==
  \/ \E g \in GwIds, s \in Sockets, b \in Broadcasts, u \in Users :
       HandleMuteUser(g, s, b, u)
  \/ \E g \in GwIds : MuteSocketRead(g)
  \/ \E g \in GwIds : MuteUpdated(g)
  \/ \E g \in GwIds, s \in Sockets, b \in Broadcasts, u \in Users :
       HandleRemoveUser(g, s, b, u)
  \/ \E g \in GwIds : RemoveSocketRead(g)
  \/ \E g \in GwIds, s \in Sockets, b \in Broadcasts : HandlePublishOffer(g, s, b)
  \/ \E g \in GwIds, s \in Sockets : HandleLeave(g, s)
  \/ \E g \in GwIds : LeaveSessionUpdated(g)
  \/ \E g \in GwIds : LeavePresenceRemoved(g)
  \/ \E g \in GwIds : LeaveSocketDeleted(g)
  \/ \E g \in GwIds : LeaveCounted(g)
  \/ \E g \in GwIds : LeaveUpdFound(g)
  \/ \E g \in GwIds : LeaveUpdated(g)

SpecHost == InitSession /\ [][NextHost]_vars

\* --------------------------------------------------- publish specification
\* The transports route and the produce route, called by either user, with
\* sockets 1 and 2 joined to broadcast 1: user 1 as its host, user 2 as a
\* listener.

\* The produce requests served in one behaviour
MaxPublish == 2

\* The broadcast the two connections have joined
JoinedBroadcast == Min(Broadcasts)

NextPublish ==
  \/ \E q \in ReqIds : RouteTransports(q, JoinedBroadcast)
  \/ \E q \in ReqIds : EngineRouterCreated(q)
  \/ \E q \in ReqIds : EngineTransportCreated(q)
  \/ \E q \in ReqIds : TransportSessionFound(q)
  \/ \E q \in ReqIds : TransportSessionUpdated(q)
  \/ \E m \in 1..MaxPublish, t \in {x.id : x \in transports}, u \in Users :
       RouteProduce(m, t, u)
  \/ \E m \in MediaIds : EngineProduced(m)
  \/ \E m \in MediaIds : ProduceSessionFound(m)
  \/ \E m \in MediaIds : ProduceSessionUpdated(m)

SpecPublish == InitSession /\ [][NextPublish]_vars

\* ----------------------------------------------- drain-and-join specification
\* The orchestrator drains the first instance for remediation while the
\* gateway of the signalling server on that instance serves joins.

GatewayInstance == Min(InstanceIds)

NextDrainJoin ==
  \/ AdvanceQuiet
  \/ \E n \in 0..MaxListeners : ProcessMetrics(GatewayInstance, n)
  \/ \E p \in CtlIds : StartRemediation(p, GatewayInstance)
  \/ \E p \in CtlIds : HuRemovedFromLb(p)
  \/ \E p \in CtlIds : DrainMark(p)
  \/ \E p \in CtlIds : DrainWake(p)
  \/ \E p \in CtlIds : HuReplaced(p)
  \/ \E g \in GwIds, s \in Sockets, b \in Broadcasts : HandleJoin(g, s, b)
  \/ \E g \in GwIds : JoinFound(g)
  \/ \E g \in GwIds : JoinCreated(g)
  \/ \E g \in GwIds : JoinCounted(g)
  \/ \E g \in GwIds : JoinUpdFound(g)
  \/ \E g \in GwIds : JoinUpdated(g)
  \/ \E g \in GwIds : JoinPresenceAdded(g)
  \/ \E g \in GwIds : JoinSocketSet(g)

SpecDrainJoin == InitOrchestrator(minInstances) /\ [][NextDrainJoin]_vars

\* ---------------------------------------------------- replica specification
\* Two orchestrator processes receive scale-up requests over one auto-scaling
\* period.

NextReplicas ==
  \/ AdvanceOnePeriod
  \/ \E p \in CtlIds, t \in 1..MaxTargetLoad : MsgScaleUp(p, t)
  \/ \E p \in CtlIds : LaunchDone(p)
  \/ \E t \in 1..MaxTargetLoad : PeerMsgScaleUp(t)
  \/ PeerLaunchDone

SpecReplicas == InitOrchestrator(0) /\ [][NextReplicas]_vars

\* ---------------------------------------------------- failure specification
\* One auto-scaling period and scale-up requests with a provider whose
\* launch call can fail; nothing runs once the process has terminated.

\* Launch attempts observed.
MaxLaunches == 2
LaunchesLeft == Len(launchLog) < MaxLaunches

NextFailure ==
  \/ ~crashed /\ AdvanceOnePeriod
  \/ ~crashed /\ TickFire
  \/ \E p \in CtlIds, f \in FleetHigh \cup FleetMid :
       ~crashed /\ LaunchesLeft /\ TickEvaluate(p, f)
  \/ \E p \in CtlIds : ~crashed /\ TickBroadcasts(p, NoListeners)
  \/ \E p \in CtlIds, t \in 1..MaxTargetLoad :
       ~crashed /\ LaunchesLeft /\ MsgScaleUp(p, t)
  \/ \E p \in CtlIds : ~crashed /\ LaunchDone(p)
  \/ \E p \in CtlIds, fatal \in BOOLEAN : ~crashed /\ LaunchFailed(p, fatal)

SpecFailure == InitOrchestrator(0) /\ [][NextFailure]_vars

\* ---------------------------------------------------- metrics specification
\* Instances report samples while the metrics-collection interval runs.

NextMetrics ==
  \/ AdvanceCollect
  \/ \E i \in InstanceIds, n \in 0..MaxListeners : ProcessMetricsAt(i, n)
  \/ CollectFire
  \/ \E p \in CtlIds : CollectStored(p)
  \/ \E p \in CtlIds : CollectLogged(p)

SpecMetrics == InitOrchestrator(maxInstances) /\ [][NextMetrics]_vars

\* ----------------------------------------------------- health specification
\* The health-check loop over a fleet whose instances report no listeners,
\* with the remediation it starts.  Passes begin while no count has run
\* past the threshold.

CountsBounded == \A i \in InstanceIds : unhealthyCount[i] <= unhealthyThreshold

NextHealth ==
  \/ \E p \in CtlIds : CountsBounded /\ HealthFire(p)
  \/ \E p \in CtlIds, healthy \in BOOLEAN : HealthChecked(p, healthy)
  \/ \E p \in CtlIds : HuRemovedFromLb(p)
  \/ \E p \in CtlIds : DrainMark(p)
  \/ \E p \in CtlIds : HuReplaced(p)

SpecHealth == InitOrchestrator(maxInstances) /\ [][NextHealth]_vars

\* ------------------------------------------------------------------ C1
\* Routers of broadcast b the engine holds open.
LiveRouters(b) == {r \in engineRouters : r.bid = b /\ ~r.closed}

\* C1: for every broadcast at most one router exists at any time, under any
\* interleaving of createWebRtcTransport, createRouter and rtp-capabilities
\* requests for it.
AtMostOneRouterPerBroadcast ==
  \A b \in Broadcasts : Cardinality(LiveRouters(b)) <= 1

\* ------------------------------------------------------------------ C2
HostSessions(b) ==
  {i \in DOMAIN sessions : /\ sessions[i].bid = b
                           /\ sessions[i].role = "host"
                           /\ sessions[i].status = "connected"}

\* C2: at most one connected host-role session exists per broadcast; a second
\* join of the broadcast by its host creates no second host session.
AtMostOneHostSession ==
  \A b \in Broadcasts : Cardinality(HostSessions(b)) <= 1

\* ------------------------------------------------------------------ C3
\* Any two entries of the log are at least cooldownPeriod apart.
CooldownApart(log) ==
  \A i, j \in DOMAIN log : i < j => log[j] - log[i] >= cooldownPeriod

\* C3: the start times of any two scale-ups that launched instances differ by
\* at least cooldownPeriod, whether the scale-ups come from the auto-scaling
\* timer or from 'orchestrator:scaling' messages.
ScaleUpsCooldownApart == CooldownApart(launchLog)

\* ------------------------------------------------------------------ C4
\* Instances asked of the provider by launches still pending.
RECURSIVE PendingAdds(_)
PendingAdds(P) ==
  IF P = {} THEN 0
  ELSE LET p == Min(P)
       IN (IF cp[p].pc = "suLaunch" THEN cp[p].n ELSE 0) + PendingAdds(P \ {p})

\* C4: after scale-ups whose starts are each separated by the cooldown, the
\* instances the controller has requested to be running (those registered
\* and those of pending launches) number at most maxInstances.
RequestedWithinMax ==
  CooldownApart(launchLog) =>
    Cardinality(instances) + PendingAdds(CtlIds) <= maxInstances

\* ------------------------------------------------------------------ C5
\* C5: whatever the instance count and the total load, the instances a
\* scaleDown selects for removal leave at least minInstances running.
ScaleDownKeepsMin ==
  \A p \in CtlIds :
    cp[p].ret = "sdTerminate" => cp[p].cur - cp[p].n >= minInstances

\* ------------------------------------------------------------------ C6
\* Handlers parked at terminateECSInstances / replaceInstance.
Retiring(p) == cp[p].pc \in {"sdTerminate", "huReplace"}

\* C6: an instance is handed to termination or replacement only after
\* drainInstances has marked it draining and has returned for it.
TerminationAfterDrain ==
  \A p \in CtlIds :
    Retiring(p) =>
      /\ cp[p].ids # {}
      /\ cp[p].marked = cp[p].ids
      /\ \A i \in cp[p].ids : instState[i] = "draining"
      /\ cp[p].start >= Epoch
      /\ cp[p].done >= cp[p].start

\* A scale-down and a remediation both past their drain.
TerminationAfterDrainWitness ==
  \E p, q \in CtlIds :
    /\ cp[p].pc = "sdTerminate" /\ cp[q].pc = "huReplace"
    /\ cp[p].marked = cp[p].ids /\ cp[q].marked = cp[q].ids

\* ------------------------------------------------------------------ C7
InDrain(p) == cp[p].pc \in {"drainMark", "drainSleep"}

\* A drain asleep began its sleep before maxDrainTime had passed.
SleepsWithinDrainTime ==
  \A p \in CtlIds :
    cp[p].pc = "drainSleep" =>
      (cp[p].wake - PollInterval) - cp[p].start < maxDrainTime

\* C7: drainInstances always returns, whatever the listener counts do, and
\* no later than the first poll at or after maxDrainTime.
DrainAlwaysReturns ==
  /\ []SleepsWithinDrainTime
  /\ \A p \in CtlIds : InDrain(p) ~> ~InDrain(p)

\* A drain that returned on the timeout with listeners still connected.
DrainTimedOutWitness ==
  \E p \in CtlIds :
    /\ Retiring(p)
    /\ cp[p].done - cp[p].start >= maxDrainTime
    /\ \E i \in cp[p].ids : metrics[i] > 0

\* ------------------------------------------------------------------ C8
\* Handler p evaluates the polling loop in this step.
Polls(p) ==
  /\ InDrain(p)
  /\ cp'[p] # cp[p]
  /\ cp'[p].marked = cp'[p].ids

\* C8: a poll that finds every drained instance at listener count zero
\* returns at once instead of waiting for maxDrainTime.
DrainCompletesEarly ==
  [][\A p \in CtlIds :
       (Polls(p) /\ \A i \in cp[p].ids : metrics[i] = 0)
         => (cp'[p].pc = cp[p].ret /\ cp'[p].done = now)]_vars

\* A drain that slept, then found its instances empty before the timeout.
DrainCompletedEarlyWitness ==
  \E p \in CtlIds :
    /\ Retiring(p)
    /\ cp[p].done > cp[p].start
    /\ cp[p].done - cp[p].start < maxDrainTime
    /\ \A i \in cp[p].ids : metrics[i] = 0

\* ------------------------------------------------------------------ C9
\* Relays registered in this.relayNodes.
RegisteredRelays == {x \in relayInstances : x.id \in relayNodes}

\* C9: at most one relay is provisioned and registered for a (broadcast,
\* region) pair, over any sequence of timer ticks and 'add-relay' requests.
OneRelayPerBroadcastRegion ==
  \A x, y \in RegisteredRelays :
    (x.bid = y.bid /\ x.region = y.region) => x = y

\* ----------------------------------------------------------------- C10
\* C10: at most one CDN distribution is ever created for a broadcast, under
\* any interleaving of activateCDN calls.
OneDistributionPerBroadcast ==
  \A x, y \in cdnCreated : x.bid = y.bid => x = y

\* ----------------------------------------------------------------- C13
\* C13: createRouter(b) with a router already registered for b returns that
\* router, asks the engine for no new one and leaves the round-robin index
\* where it was.
CreateRouterIdempotent ==
  [][\A q \in ReqIds, b \in Broadcasts :
       (CallCreateRouter(q, b) /\ getRouter(b) # 0)
         => /\ nextWorkerIndex' = nextWorkerIndex
            /\ sfuReq'[q].pc = "done"
            /\ sfuReq'[q].router = getRouter(b)]_vars

\* ----------------------------------------------------------------- C14
\* C14: no transport stays in this.transports once the router it was
\* created on has been closed by deleteRouter or cleanupBroadcast.
NoTransportOfClosedRouter ==
  \A t \in transports : \A r \in engineRouters : r.id = t.router => ~r.closed

\* ----------------------------------------------------------------- C15
\* The handler has emitted 'error' to its caller and returned.
JoinFailed(g) == gw[g].pc \in {"errNotFound", "errEnded"}

\* C15: a join of an absent broadcast ends with the error 'Broadcast not
\* found' and a join of an ended one with 'Broadcast has ended'; neither
\* creates a session, enters activeSessions, or changes presence or the
\* listener count, and the handler does nothing after the error.
FailedJoinChangesNothing ==
  [][\A g \in GwIds :
       /\ (gw[g].pc = "joinFind" /\ gw'[g] # gw[g]
             /\ bstatus[gw[g].bid] \in {"absent", "ended"})
            => /\ gw'[g].pc = IF bstatus[gw[g].bid] = "absent"
                              THEN "errNotFound" ELSE "errEnded"
               /\ gw'[g].sid = 0
               /\ UNCHANGED <<sessions, activeSessions, presence,
                              userSocket, listenerCount>>
       /\ JoinFailed(g) => gw'[g] = gw[g]]_vars

\* A join that failed on an ended broadcast beside one that went through.
FailedJoinWitness ==
  \E g, h \in GwIds :
    /\ gw[g].pc = "errEnded" /\ bstatus[gw[g].bid] = "ended"
    /\ gw[h].pc = "joined"
    /\ \A i \in DOMAIN sessions : sessions[i].bid # gw[g].bid

\* ----------------------------------------------------------------- C17
\* C17: at most one connected session exists for a broadcast and a user,
\* also when the user joins the broadcast from two connections.
ConnectedSessionsUnique ==
  \A b \in Broadcasts, u \in Users : Cardinality(ConnectedSessionsOf(b, u)) <= 1

\* ----------------------------------------------------------------- C11
\* Session rows whose leave has run to its end.
LeftSessions == {gw[g].sid : g \in {h \in GwIds : gw[h].pc = "left"}}

\* C11: once the leave or disconnect of a connection has completed, the
\* transport recorded in its session row is no longer in this.transports.
LeaveReleasesTransport ==
  \A i \in LeftSessions :
    sessions[i].transportId # 0 =>
      \A t \in transports : t.id # sessions[i].transportId

\* ----------------------------------------------------------------- C12
\* C12: a connection's session is left once: however 'leave' and
\* 'disconnect' follow or overlap each other, the 'userLeft' events emitted
\* for a socket number at most the sessions that socket has had.
LeaveIsIdempotent ==
  \A s \in Sockets :
    userLeft[s] <= Cardinality({i \in DOMAIN sessions : sessions[i].socket = s})

StartsScaling(p) ==
  /\ cp'[p].pc \in {"suLaunch", "drainMark"}
  /\ cp[p].pc \notin {"suLaunch", "drainMark"}

\* C18: while less than cooldownPeriod has passed since the last scaling
\* action of either kind, scaleUp and scaleDown launch, drain and terminate
\* no instance and leave lastScaleAction and scalingHistory as they are.
CooldownSharedByScaling ==
  [][InCooldown =>
       /\ UNCHANGED <<lastScaleAction, scalingHistory, instances, instState,
                      provisioned>>
       /\ \A p \in CtlIds : ~StartsScaling(p)]_vars

\* ----------------------------------------------------------------- C20
\* Regions in which broadcast b has a registered relay.
Covered(b) == {x.region : x \in {y \in RegisteredRelays : y.bid = b}}

\* Entries of distribution d in configured regions without a relay of b.
Uncovered(d, b) ==
  {k \in DOMAIN d : /\ \E j \in DOMAIN Regions : Regions[j] = d[k].region
                    /\ d[k].region \notin Covered(b)}

\* C20: addRelayNode places the relay in the region that has the most
\* listeners among those the broadcast has no relay in yet; with 60% of the
\* listeners in one region and 40% in another, that is the first.
RelayPlacedByConcentration ==
  [][\A p \in CtlIds, d \in RegionDistributions :
       (RelayRegionsRead(p, d) /\ Uncovered(d, cp[p].bid) # {})
         => \E k \in Uncovered(d, cp[p].bid) :
              /\ cp'[p].region = d[k].region
              /\ \A j \in Uncovered(d, cp[p].bid) : d[j].count <= d[k].count]_vars

\* ----------------------------------------------------------------- C19
\* Activations the timer's loop still owes for the broadcasts in todo, the
\* head's CDN test counting only while it is the next one.
PendingDue(todo, stage) ==
  {<<"cdn", todo[k].id>> :
     k \in {j \in DOMAIN todo : /\ todo[j].listenerCount >= cdnSwitchThreshold
                                /\ ~todo[j].cdnActivated
                                /\ (j > 1 \/ stage = "cdn")}}
  \cup
  {<<"relay", todo[k].id>> :
     k \in {j \in DOMAIN todo : /\ todo[j].listenerCount >= relayActivationThreshold
                                /\ ~todo[j].relaysActivated}}

\* The activation a handler has just called.
Invoked(r) ==
  IF r.pc \in {"acCreate", "acOrigin"} THEN {<<"cdn", r.bid>>}
  ELSE IF r.pc = "arRegions" THEN {<<"relay", r.bid>>}
  ELSE {}

\* The loop has passed over no activation it owed.
NoneSkipped(todo, stage, r) ==
  PendingDue(todo, stage) = Invoked(r) \cup PendingDue(r.todo, r.stage)

\* C19: a timer tick inside the cooldown of a scaling action still goes on
\* to the broadcasts, and the tick calls activateCDN for every broadcast at
\* or over cdnSwitchThreshold without a distribution and addRelayNode for
\* every one at or over relayActivationThreshold without a relay, one after
\* the other.
ActivationIgnoresCooldown ==
  [][\A p \in CtlIds :
       /\ (cp[p].pc = "tickMetrics" /\ cp'[p] # cp[p] /\ InCooldown)
            => cp'[p].pc = "tickBroadcasts"
       /\ \A L \in [Broadcasts -> ListenerSamples] :
            TickBroadcasts(p, L) => NoneSkipped(getActiveBroadcasts(L), "cdn", cp'[p])
       /\ (cp[p].kind = "tick" /\ cp[p].pc \in {"acPublish", "arPublish"}
             /\ cp'[p] # cp[p])
            => NoneSkipped(cp[p].todo, cp[p].stage, cp'[p])]_vars

\* A tick inside the cooldown of a scale-up that has called an activation.
ActivationInCooldownWitness ==
  \E p \in CtlIds :
    /\ cp[p].kind = "tick" /\ cp[p].pc \in {"acCreate", "arRegions"}
    /\ lastScaleAction >= Epoch /\ InCooldown

\* The broadcasts for which an endBroadcast call has completed, and the
\* registered transports of a broadcast's routers.
EndedBroadcasts ==
  {sfuReq[q].bid : q \in {r \in ReqIds : /\ sfuReq[r].kind \in {"end", "endAdmin"}
                                          /\ sfuReq[r].pc = "done"}}
TransportsOfBroadcast(b) ==
  {t.id : t \in {x \in transports :
                   \E r \in engineRouters : r.id = x.router /\ r.bid = b}}

\* C21: once endBroadcast(b) has completed, no router is registered for b and
\* no transport, producer or consumer of b remains in the registries.
RouterEndsWithBroadcast ==
  \A b \in EndedBroadcasts :
    /\ routers[b] = 0
    /\ TransportsOfBroadcast(b) = {}
    /\ \A x \in producers : x.transport \notin TransportsOfBroadcast(b)
    /\ \A c \in consumers : c.transport \notin TransportsOfBroadcast(b)

\* C22: after a worker's 'died' event has been delivered, getNextWorker never
\* returns that worker: no createRouter call is handed a dead worker.
DeadWorkerLeavesRotation ==
  [][\A q \in ReqIds :
       sfuReq[q].pc = "idle" /\ sfuReq'[q].pc = "awaitRouter"
         => sfuReq'[q].worker \notin deadWorkers]_vars

\* The call recorded in r names an id that is not registered.
NamesUnknownId(r) ==
  CASE r.kind \in {"connect", "produce"} -> getTransport(r.transport) = {}
    [] r.kind = "consume" -> getTransport(r.transport) = {} \/ getProducer(r.producer) = {}
    [] r.kind \in ProducerOps -> getProducer(r.producer) = {}
    [] r.kind \in ConsumerOps -> getConsumer(r.consumer) = {}
    [] OTHER -> FALSE

\* C24: connectTransport, createProducer, createConsumer, pause and resume
\* called with an unknown id throw their not-found error before any engine
\* call, and the routers, transports, producers and consumers maps are the
\* same before and after.
UnknownIdsLeaveRegistries ==
  [][\A m \in MediaIds :
       mediaReq[m].pc = "idle" /\ mediaReq'[m].pc # "idle" /\ NamesUnknownId(mediaReq'[m])
         => /\ mediaReq'[m].pc = "notFound"
            /\ UNCHANGED <<routers, transports, producers, consumers>>]_vars

\* A createConsumer call on a registered transport was refused for its
\* unknown producer while a pause found its consumer missing.
UnknownIdsWitness ==
  /\ \E m \in MediaIds : /\ mediaReq[m].kind = "consume"
                          /\ mediaReq[m].pc = "notFound"
                          /\ getTransport(mediaReq[m].transport) # {}
  /\ \E m \in MediaIds : mediaReq[m].kind \in ConsumerOps /\ mediaReq[m].pc = "notFound"

HostOnlyAdmitted == {"muteGet", "removeGet", "publishAccepted"}
HostOnlyDenied == {"errNotHost", "errRemoveNotHost", "errPublishNotHost"}

\* C30: muteUser, removeUser and publishOffer from a connection with no
\* session, or whose session role is not host, answer the caller with an
\* error, change no session state, send nothing to the target and
\* disconnect nobody.
HostOnlyDeniedCleanly ==
  [][\A g \in GwIds :
       /\ gw[g].pc = "idle"
       /\ gw'[g].pc \in HostOnlyAdmitted \cup HostOnlyDenied
       /\ sessionRole(gw'[g].socket) # "host"
       => /\ gw'[g].pc \in HostOnlyDenied
          /\ UNCHANGED <<sessions, activeSessions, notified, kicked>>]_vars

\* A listener's removeUser and a sessionless connection's request have both
\* been denied.
HostOnlyDeniedWitness ==
  /\ \E g \in GwIds : /\ gw[g].pc = "errRemoveNotHost"
                       /\ sessionRole(gw[g].socket) = "listener"
  /\ \E g \in GwIds : /\ gw[g].pc \in HostOnlyDenied
                       /\ sessionRole(gw[g].socket) = "none"

\* C29: from the moment an instance is marked 'draining' and signalled, every
\* join arriving at it is refused: while the gateway's instance is draining
\* no session is created and the broadcasts' listener counts do not grow.
DrainingAdmitsNoJoin ==
  [][instState[GatewayInstance] = "draining" /\ GatewayInstance \in instances
       => /\ Len(sessions') = Len(sessions)
          /\ \A b \in Broadcasts : listenerCount'[b] <= listenerCount[b]]_vars

\* C26: of two orchestrator replicas at most one performs a scale action
\* within a cooldown window: once both have scaled, their actions lie at
\* least cooldownPeriod apart.
ReplicasScaleApart ==
  lastScaleAction >= Epoch /\ peer.lastScaleAction >= Epoch
    => \/ lastScaleAction - peer.lastScaleAction >= cooldownPeriod
       \/ peer.lastScaleAction - lastScaleAction >= cooldownPeriod

\* C27: a failed provisioning call leaves lastScaleAction and scalingHistory
\* unchanged and does not stop the periodic evaluation.
FailedLaunchAbandoned ==
  [][\A p \in CtlIds, fatal \in BOOLEAN :
       LaunchFailed(p, fatal)
         => UNCHANGED <<lastScaleAction, scalingHistory>> /\ ~crashed']_vars

\* The listeners of the samples that are no older than the staleness window.
FreshLoad ==
  SumLoad({i \in InstanceIds : metrics[i] # NoMetrics /\ now - metricsAt[i] <= StaleWindow})

\* C23: an instance whose latest sample is older than the staleness window
\* contributes nothing to an aggregate computed after the window has passed:
\* every aggregate the collection computes is the sum over the fresh samples.
StaleSamplesExcluded ==
  [][\A p \in CtlIds :
       cp[p].pc = "idle" /\ cp'[p].pc = "mcStore" => cp'[p].n = FreshLoad]_vars

\* C28: handleUnhealthyInstance(i) is invoked only when i has failed
\* unhealthyThreshold health checks in a row, and remediation removes the
\* instance from routing, then drains it, then replaces it: the drain is
\* entered from the removal only, the replacement from the drain only, and
\* an instance leaves the registry only by a replacement.
RemediationAfterStreakInOrder ==
  [][/\ \A p \in CtlIds :
          /\ cp[p].pc # "huRemoveLb" /\ cp'[p].pc = "huRemoveLb"
               => \A i \in cp'[p].ids : failStreak'[i] >= unhealthyThreshold
          /\ cp[p].pc = "huRemoveLb" /\ cp'[p].pc # "huRemoveLb"
               => cp'[p].pc = "drainMark" /\ cp'[p].ids = cp[p].ids
          /\ cp[p].pc # "huReplace" /\ cp'[p].pc = "huReplace"
               => /\ cp[p].pc \in {"drainMark", "drainSleep"}
                  /\ \A i \in cp'[p].ids : instState'[i] = "draining"
     /\ \A i \in instances \ instances' :
          \E p \in CtlIds : cp[p].pc = "huReplace" /\ i \in cp[p].ids]_vars

\* An instance has been replaced after its streak while another instance of
\* the registry has failed fewer checks than the threshold.
RemediationWitness ==
  /\ \E i \in InstanceIds : i \notin instances /\ failStreak[i] >= unhealthyThreshold
  /\ \E i \in instances : unhealthyCount[i] > 0 /\ unhealthyCount[i] < unhealthyThreshold

\* C38: drainInstances returns before the timeout only if every instance of
\* instanceIds has a known latest listener count of zero; an instance without
\* a metrics entry does not count as drained.
DrainSuccessMeansEmpty ==
  [][\A p \in CtlIds :
       (Polls(p) /\ cp'[p].pc = cp[p].ret /\ now - cp'[p].start < maxDrainTime)
         => \A i \in cp[p].ids : metrics[i] = 0]_vars

\* Handler p is running handleUnhealthyInstance.
Remediating(p) ==
  /\ cp[p].kind \in {"health", "hloop"}
  /\ cp[p].pc \in {"huRemoveLb", "drainMark", "drainSleep", "huReplace"}

\* C39: while handleUnhealthyInstance(i) is in progress no second remediation
\* of the same instance is started.
OneRemediationPerInstance ==
  \A p, q \in CtlIds :
    p # q /\ Remediating(p) /\ Remediating(q) => cp[p].ids \cap cp[q].ids = {}

\* C34: a session row whose status is 'disconnected' keeps that status and
\* its isMuted and isHandRaised values in every later step.
DisconnectedIsTerminal ==
  [][\A i \in DOMAIN sessions :
       sessions[i].status = "disconnected"
         => /\ sessions'[i].status = "disconnected"
            /\ sessions'[i].isMuted = sessions[i].isMuted
            /\ sessions'[i].isHandRaised = sessions[i].isHandRaised]_vars

\* C35: a cleanupBroadcast(b) step leaves registered every transport that
\* was not created on the router of broadcast b, with its producers and
\* consumers, and leaves the router of every other broadcast registered.
CleanupTouchesOnlyItsBroadcast ==
  [][\A b \in Broadcasts :
       CallCleanupBroadcast(b)
         => /\ \A t \in transports : t.router # getRouter(b) => t \in transports'
            /\ \A x \in producers :
                 x.transport \notin TransportsOf(getRouter(b)) => x \in producers'
            /\ \A c \in Broadcasts : c # b => routers'[c] = routers[c]]_vars

\* No join, leave or other gateway handler is between two of its awaits.
GatewayQuiet ==
  \A g \in GwIds :
    gw[g].pc \notin {"joinFind", "joinCreate", "joinCount", "joinUpdFind",
                     "joinUpdate", "joinSadd", "joinSet", "leaveUpdate",
                     "leaveSrem", "leaveDel", "leaveCount", "leaveUpdFind",
                     "leaveUpdCount", "raiseUpdate", "lowerUpdate", "muteGet",
                     "muteUpdate", "removeGet"}

\* C36: when every join and leave handler has run to its end, the stored
\* currentListenerCount of each broadcast is the number of its session rows
\* with status 'connected'.
ListenerCountConverges ==
  GatewayQuiet => \A b \in Broadcasts : listenerCount[b] = ConnectedCount(b)

\* The users with a connected session row in broadcast b
ConnectedUsers(b) ==
  {sessions[i].uid : i \in {j \in DOMAIN sessions :
      sessions[j].bid = b /\ sessions[j].status = "connected"}}

\* C37: when every join and leave handler has run to its end, the presence
\* set of each broadcast is the set of users with a connected session in it,
\* and each such user has a user-to-socket entry.
PresenceMatchesSessions ==
  GatewayQuiet =>
    \A b \in Broadcasts :
      /\ presence[b] = ConnectedUsers(b)
      /\ \A u \in ConnectedUsers(b) : userSocket[u] # 0

\* The calls of getNextWorker made so far: each one belongs to a createRouter
\* that is still awaiting the engine or has had its router made.
GetNextWorkerCalls ==
  Cardinality(engineRouters) +
    Cardinality({q \in ReqIds : sfuReq[q].pc = "awaitRouter"})

\* C31: nextWorkerIndex stays in 0..N-1 and equals the number of calls made
\* modulo N, and the call made after k earlier calls hands out worker k mod N.
WorkersTakenInTurn ==
  /\ [](nextWorkerIndex \in Workers /\ nextWorkerIndex = GetNextWorkerCalls % NumWorkers)
  /\ [][\A q \in ReqIds :
          (sfuReq[q].pc # "awaitRouter" /\ sfuReq'[q].pc = "awaitRouter")
            => sfuReq'[q].worker = GetNextWorkerCalls % NumWorkers]_vars

\* More calls than workers have been made: the index has wrapped round and the
\* latest call, still awaiting the engine, got the worker its number gives.
WorkersTakenInTurnWitness ==
  /\ GetNextWorkerCalls > NumWorkers
  /\ nextWorkerIndex = GetNextWorkerCalls % NumWorkers
  /\ \E q \in ReqIds : /\ sfuReq[q].pc = "awaitRouter"
                       /\ sfuReq[q].worker = (GetNextWorkerCalls - 1) % NumWorkers

ProducersOnlyForPublishers ==
  \A x \in producers :
    \E i \in DOMAIN sessions :
      /\ sessions[i].uid = mediaReq[x.id].user
      /\ sessions[i].status = "connected"
      /\ sessions[i].role \in {"host", "speaker"}

====
